---- MODULE Spec2Model ----
(***************************************************************************)
(* tapir: the agent session engine.                                        *)
(*                                                                         *)
(*   SpecApi      api.rs      send_stream / try_send / is_retryable /      *)
(*                            retry_delay                                  *)
(*   SpecStream   stream.rs   stream_response over any event sequence      *)
(*   SpecWf       stream.rs   stream_response over well-formed streams     *)
(*   SpecSession  agent.rs    run / run_session from the start             *)
(*   SpecDispatch agent.rs    the tool dispatch of run_session             *)
(*   SpecPersist  agent.rs    run / run_session when writes may fail       *)
(*   SpecPush     agent.rs    Session::push_message, statement by          *)
(*                            statement                                    *)
(*   SpecCut      agent.rs    find_cut_point                               *)
(*   SpecCompact  agent.rs    compact / generate_summary                   *)
(*   SpecDecode   sse.rs      parse_event over raw events                  *)
(*   SpecReader   sse.rs      SseReader::next_event                        *)
(*   SpecBash     tool.rs     run_bash                                     *)
(*   SpecRoundTrip types.rs   save_message and load_session of a Message   *)
(*   SpecFrame    sse.rs      SseReader::next_event over one event block   *)
(*   SpecBashFair tool.rs     run_bash when every thread keeps running     *)
(*                                                                         *)
(* Option<T> values are sets of at most one element: {} is None and {x}    *)
(* is Some(x).  Result<T> values are records with a "kind" field; the      *)
(* kind "Ok" is the success and every other kind is an Error variant of    *)
(* error.rs.                                                               *)
(***************************************************************************)
EXTENDS Integers, Sequences, FiniteSets, TLC

VARIABLES
    api_pc,            \* send_stream: "idle", "serialize", "try", "returned"
    attempt,           \* send_stream: the loop variable `attempt`
    body_serialized,   \* number of serde_json::to_string(request) calls
    tried,             \* the results of the try_send calls, in order
    slept,             \* the thread::sleep durations (seconds), in order
    api_result,        \* {} while running, {r} once send_stream returned r
    INTERRUPTED,       \* signal.rs: the process-wide cancellation flag
    st_pc,             \* stream_response: "idle", "call", "loop", "returned", "failed"
    timer,             \* stream_response: the local `timer`, {} or {"handle"}
    timer_thread,      \* the ThinkingTimer thread: "not_started", "running", "joined"
    content,           \* stream_response: finished content blocks
    usage,             \* stream_response: [input_tokens, output_tokens]
    stop_reason,       \* stream_response: the captured stop reason
    interrupted,       \* stream_response: the interrupted flag
    block,             \* stream_response: the BlockState accumulator
    events,            \* the events next_event has returned so far, in order
    raws,              \* the event types and payloads passed to parse_event
    server,            \* the service's position in the event protocol
    st_result,         \* {} while running, {r} once stream_response returned r
    s_pc,              \* control thread: "off", "startup", "top", "dispatch",
                       \*   "input", "exit_ok", "exit_err"
    messages,          \* Session.messages
    transcript,        \* the records of the session's transcript file
    disk,              \* the transcript of the latest indexed earlier session
    indexed,           \* the message_count of the session's record in the
                       \*   index file, {} when the index has no such record
    last_input_tokens, \* run_session: last_input_tokens
    tool_calls,        \* run_session: tool_calls of the turn being dispatched
    workers,           \* the scoped worker threads, one per tool call
    finished,          \* the latest dispatch's workers in completion order
    executed,          \* the indices of the calls passed to tool::execute
    turns,             \* number of stream_response calls so far
    stderr,            \* the notices printed by the latest step of the loop
    p_pc,              \* push_message: 0 when not running, else the statement
    pending,           \* push_message: the parameter `msg`, {} when not running
    cut_point,         \* {} or {r}: what find_cut_point computed and returned
    rd_pc,             \* next_event: "idle", "check", "read", "returned"
    event_type,        \* next_event: the local `event_type`
    data,              \* next_event: the local `data`, its lines in order
    lines,             \* the lines the connection has yet to deliver
    eintr,             \* number of reads that returned Interrupted
    rd_result,         \* {} while running, {r} once next_event returned r
    frame,             \* the lines next_event read since the last blank line
    b_pc,              \* run_bash: "idle", "loop", "kill_wait", "cancel_wait",
                       \*   "returned"
    timeout_secs,      \* run_bash: the parameter `timeout_secs`
    now,               \* time since `start`, in units of 200 ms
    polled,            \* the time at which the current recv_timeout began
    child,             \* the shell process: its state ("none", "running",
                       \*   "exited", "killed") and when it ended
    orphans,           \* whether processes the shell started hold its pipes
    rx,                \* the channel: {} or {what wait_with_output returned}
    b_result,          \* {} while running, {r} once run_bash returned r
    rt_pc,             \* transcript round trip: "idle", "start", "saved", "loaded"
    saved,             \* save_message: the Message `msg`
    record,            \* the lines of the transcript that save_message wrote
    loaded,            \* {} or {what load_session returned}
    storage            \* the file system: "sound", or "faulty" when writes
                       \*   of the transcript and of the index may fail

apiVars == <<api_pc, attempt, body_serialized, tried, slept, api_result>>

streamLocals == <<st_pc, timer, timer_thread, content, usage, stop_reason,
                  interrupted, block, events, raws, server>>

streamVars == <<streamLocals, st_result>>

sessVars == <<s_pc, messages, transcript, disk, indexed, last_input_tokens,
              tool_calls, workers, finished, executed, turns, stderr>>

rdVars == <<rd_pc, event_type, data, lines, eintr, rd_result, frame>>

bashVars ==
    <<b_pc, timeout_secs, now, polled, child, orphans, rx, b_result>>

rtVars == <<rt_pc, saved, record, loaded>>

fnVars == <<p_pc, pending, cut_point, rdVars, bashVars, rtVars>>

vars == <<apiVars, INTERRUPTED, streamVars, sessVars, fnVars, storage>>

(***************************************************************************)
(* error.rs: the Error variants the transport produces.                    *)
(***************************************************************************)
OkResult == [kind |-> "Ok", status |-> 200, retry_after |-> {}]

HttpError == [kind |-> "Http", status |-> 0, retry_after |-> {}]

JsonError == [kind |-> "Json", status |-> 0, retry_after |-> {}]

ApiError(status, retry_after) ==
    [kind |-> "Api", status |-> status, retry_after |-> retry_after]


(***************************************************************************)
(* types.rs: content blocks and stop reasons.  Strings are sequences of    *)
(* characters, so concatenation (push_str) is \o.                          *)
(***************************************************************************)
ThinkingBlock(thinking, signature) ==
    [type |-> "thinking", text |-> thinking, signature |-> signature,
     id |-> "", name |-> "", input |-> <<>>, is_error |-> {}]

TextBlock(text) ==
    [type |-> "text", text |-> text, signature |-> <<>>,
     id |-> "", name |-> "", input |-> <<>>, is_error |-> {}]

ToolUseBlock(id, name, input) ==
    [type |-> "tool_use", text |-> <<>>, signature |-> <<>>,
     id |-> id, name |-> name, input |-> input, is_error |-> {}]

ToolResultBlock(tool_use_id, text, is_error) ==
    [type |-> "tool_result", text |-> text, signature |-> <<>>,
     id |-> tool_use_id, name |-> "", input |-> <<>>, is_error |-> is_error]

StopReasons == {"end_turn", "max_tokens", "stop_sequence", "tool_use"}

(***************************************************************************)
(* serde_json::from_str::<Value> on texts over the characters "{", "}" and *)
(* "1": the JSON documents over these characters are the empty object and  *)
(* the non-empty digit strings.  A Value is written as its canonical text. *)
(***************************************************************************)
EmptyObject == <<"{", "}">>

IsJson(s) ==
    \/ s = EmptyObject
    \/ Len(s) >= 1 /\ \A i \in 1..Len(s) : s[i] = "1"

\* A variant of parse_input that keeps the text as received, with no fallback to the empty object.
parse_input_strict(json) == json

\* serde_json::from_str(&json).unwrap_or(Value::Object(Default::default()))
parse_input(json) == IF IsJson(json) THEN json ELSE EmptyObject

(***************************************************************************)
(* sse.rs: the typed events.                                               *)
(***************************************************************************)
Event(type, kind, id, name, frag, reason, n) ==
    [type |-> type, kind |-> kind, id |-> id, name |-> name, frag |-> frag,
     reason |-> reason, n |-> n]

MessageStart(input_tokens) ==
    Event("message_start", "", "", "", <<>>, "", input_tokens)

\* kind: "thinking", "text" or "tool_use" (BlockStart)
ContentBlockStart(kind, id, name) ==
    Event("content_block_start", kind, id, name, <<>>, "", 0)

\* kind: "thinking", "signature", "text" or "input_json" (Delta)
ContentBlockDelta(kind, frag) ==
    Event("content_block_delta", kind, "", "", frag, "", 0)

ContentBlockStop == Event("content_block_stop", "", "", "", <<>>, "", 0)

MessageDelta(reason, output_tokens) ==
    Event("message_delta", "", "", "", <<>>, reason, output_tokens)

MessageStop == Event("message_stop", "", "", "", <<>>, "", 0)

Ping == Event("ping", "", "", "", <<>>, "", 0)

(***************************************************************************)
(* sse.rs: parse_event.  A payload is shown by the event it is the         *)
(* well-formed JSON payload of; the payloads that are the payload of no    *)
(* event have the types "object" (valid JSON without the fields any Raw    *)
(* type requires) and "malformed" (not JSON).  data holds the values of    *)
(* the data lines of the event, which next_event joins with a newline.     *)
(***************************************************************************)
RawEvent(type, payloads) == [event_type |-> type, data |-> payloads]

\* The event as the service writes it.
Encode(ev) == RawEvent(ev.type, <<ev>>)

\* The event types whose payload parse_event parses.
ParsedTypes ==
    {"message_start", "content_block_start", "content_block_delta",
     "content_block_stop", "message_delta"}

\* serde_json::from_str::<Raw..>(data) for the Raw type of event_type: one
\* JSON value, with the fields of that type.  Two values joined by a
\* newline are trailing characters.
from_str(type, payloads) ==
    IF Len(payloads) = 1 /\ payloads[1].type = type
    THEN [kind |-> "Ok", raw |-> payloads[1]]
    ELSE [kind |-> "Json", raw |-> Ping]

\* A variant of parse_event that rejects the event types it does not know.
parse_event_strict(type, payloads) ==
    IF type \in ParsedTypes
    THEN LET raw == from_str(type, payloads) IN
         [kind |-> raw.kind, event |-> raw.raw]
    ELSE IF type = "message_stop" THEN [kind |-> "Ok", event |-> MessageStop]
    ELSE IF type = "ping" THEN [kind |-> "Ok", event |-> Ping]
    ELSE [kind |-> "Json", event |-> Ping]

\* A variant of parse_event that takes a payload it cannot parse for a ping.
parse_event_lenient(type, payloads) ==
    IF type \in ParsedTypes
    THEN [kind |-> "Ok", event |-> from_str(type, payloads).raw]
    ELSE IF type = "message_stop" THEN [kind |-> "Ok", event |-> MessageStop]
    ELSE [kind |-> "Ok", event |-> Ping]

\* parse_event(event_type, data): Ok(event) or the serde_json error.  The
\* payloads of message_stop, of ping and of the other types are not read.
parse_event(type, payloads) ==
    IF type \in ParsedTypes
    THEN LET raw == from_str(type, payloads) IN
         [kind |-> raw.kind, event |-> raw.raw]
    ELSE IF type = "message_stop" THEN [kind |-> "Ok", event |-> MessageStop]
    ELSE [kind |-> "Ok", event |-> Ping]

(***************************************************************************)
(* stream.rs: BlockState                                                   *)
(***************************************************************************)
BlockRec(state, thinking, signature, buf, id, name, json) ==
    [state |-> state, thinking |-> thinking, signature |-> signature,
     buf |-> buf, id |-> id, name |-> name, json |-> json]

Idle == BlockRec("Idle", <<>>, <<>>, <<>>, "", "", <<>>)

\* The ContentBlockStart arm: block = match start { ... }
open_block(start) ==
    CASE start.kind = "thinking" ->
            BlockRec("Thinking", <<>>, <<>>, <<>>, "", "", <<>>)
      [] start.kind = "text" ->
            BlockRec("Text", <<>>, <<>>, <<>>, "", "", <<>>)
      [] start.kind = "tool_use" ->
            BlockRec("ToolUse", <<>>, <<>>, <<>>, start.id, start.name, <<>>)

\* A variant of apply_delta that appends a delta to the open block whatever the delta's kind.
apply_delta_any_kind(b, delta) ==
    CASE b.state = "Thinking" /\ delta.kind \in {"thinking", "text"} ->
            [b EXCEPT !.thinking = b.thinking \o delta.frag]
      [] b.state = "Thinking" /\ delta.kind = "signature" ->
            [b EXCEPT !.signature = b.signature \o delta.frag]
      [] b.state = "Text" /\ delta.kind \in {"text", "thinking"} ->
            [b EXCEPT !.buf = b.buf \o delta.frag]
      [] b.state = "ToolUse" /\ delta.kind = "input_json" ->
            [b EXCEPT !.json = b.json \o delta.frag]
      [] OTHER -> b

\* The ContentBlockDelta arm: match (&mut block, delta) { ... }
apply_delta(b, delta) ==
    CASE b.state = "Thinking" /\ delta.kind = "thinking" ->
            [b EXCEPT !.thinking = b.thinking \o delta.frag]
      [] b.state = "Thinking" /\ delta.kind = "signature" ->
            [b EXCEPT !.signature = b.signature \o delta.frag]
      [] b.state = "Text" /\ delta.kind = "text" ->
            [b EXCEPT !.buf = b.buf \o delta.frag]
      [] b.state = "ToolUse" /\ delta.kind = "input_json" ->
            [b EXCEPT !.json = b.json \o delta.frag]
      [] OTHER -> b

\* The ContentBlockStop arm: the blocks pushed for the replaced accumulator.
finalize(b) ==
    CASE b.state = "Thinking" -> <<ThinkingBlock(b.thinking, b.signature)>>
      [] b.state = "Text" -> <<TextBlock(b.buf)>>
      [] b.state = "ToolUse" ->
            <<ToolUseBlock(b.id, b.name, parse_input(b.json))>>
      [] OTHER -> <<>>

(***************************************************************************)
(* timer.rs: ThinkingTimer.  The reducer's view of the timer is the pair   *)
(* [timer, thread]: the Option holding the handle and the thread's state.  *)
(***************************************************************************)
\* ThinkingTimer::start(): spawns the thread.
timer_start == [timer |-> {"handle"}, thread |-> "running"]

\* if let Some(t) = timer.take() { t.stop(); }
\* stop() stores the stop flag and joins the thread.
take_and_stop(t) ==
    IF t.timer # {} THEN [timer |-> {}, thread |-> "joined"] ELSE t

\* The local `timer` goes out of scope.  ThinkingTimer implements no Drop:
\* dropping the JoinHandle detaches the thread and the stop flag is never
\* stored, so a thread that was not stopped keeps running.
drop_timer(t) == [timer |-> {}, thread |-> t.thread]

(***************************************************************************)
(* stream.rs: the reducer.  A reducer state is the record of the locals    *)
(* of stream_response.                                                     *)
(***************************************************************************)
Reducer(c, u, sr, i, b, t) ==
    [content |-> c, usage |-> u, stop_reason |-> sr, interrupted |-> i,
     block |-> b, tm |-> t]

\* The locals as initialized before the loop, with the timer t.
reducer_init(t) ==
    Reducer(<<>>, [input_tokens |-> 0, output_tokens |-> 0], "end_turn",
            FALSE, Idle, t)

\* A variant of on_block_start that opens the block and leaves the timer running.
on_block_start_no_stop(r, ev) == [r EXCEPT !.block = open_block(ev)]

\* The ContentBlockStart arm.
on_block_start(r, ev) ==
    [r EXCEPT !.tm = take_and_stop(r.tm), !.block = open_block(ev)]

\* The match on a received event, MessageStop (which breaks) excluded.
on_event(r, ev) ==
    CASE ev.type = "message_start" ->
            [r EXCEPT !.usage.input_tokens = ev.n]
      [] ev.type = "content_block_start" -> on_block_start(r, ev)
      [] ev.type = "content_block_delta" ->
            [r EXCEPT !.tm = take_and_stop(r.tm),
                      !.block = apply_delta(r.block, ev)]
      [] ev.type = "content_block_stop" ->
            [r EXCEPT !.content = r.content \o finalize(r.block),
                      !.block = Idle]
      [] ev.type = "message_delta" ->
            [r EXCEPT !.stop_reason = ev.reason,
                      !.usage.output_tokens = ev.n]
      [] OTHER -> r

\* A variant of on_none that never keeps the partial text of an interrupted block.
on_none_drop_partial(r, is_interrupted) ==
    [r EXCEPT !.tm = take_and_stop(r.tm), !.interrupted = is_interrupted]

\* The None arm of `match event`, given the value of is_interrupted().
on_none(r, is_interrupted) ==
    LET stopped == [r EXCEPT !.tm = take_and_stop(r.tm)] IN
    IF is_interrupted
    THEN [stopped EXCEPT
            !.interrupted = TRUE,
            !.content = IF r.block.state = "Text" /\ r.block.buf # <<>>
                        THEN r.content \o <<TextBlock(r.block.buf)>>
                        ELSE r.content]
    ELSE stopped

\* Ok(StreamResult { content, stop_reason, usage, interrupted })
StreamResult(r) ==
    [kind |-> "Ok", content |-> r.content, stop_reason |-> r.stop_reason,
     usage |-> r.usage, interrupted |-> r.interrupted]

StreamError(e) ==
    [kind |-> e, content |-> <<>>, stop_reason |-> "end_turn",
     usage |-> [input_tokens |-> 0, output_tokens |-> 0],
     interrupted |-> FALSE]

(***************************************************************************)
(* api.rs                                                                  *)
(***************************************************************************)
MAX_ATTEMPTS == 3

\* The status codes a response is drawn from.
Statuses == {200, 400, 401, 403, 404, 429, 500, 502, 503, 504, 529}

\* The values of the retry-after header: absent, numeric, or an HTTP date.
RetryAfterHeaders == {"absent", "0", "30", "date"}

\* v.parse::<u64>().ok() on the header value
ParseRetryAfter(h) ==
    CASE h = "0" -> {0}
      [] h = "30" -> {30}
      [] OTHER -> {}

\* What the network does to one delivery attempt.
Responses ==
    [transport : {"fail"}, status : {0}, header : {"absent"}, body_read : {"ok"}]
    \cup
    [transport : {"ok"}, status : Statuses, header : RetryAfterHeaders,
     body_read : {"ok", "fail"}]

try_send(resp) ==
    IF resp.transport = "fail" THEN HttpError
    ELSE IF resp.status # 200 THEN
        IF resp.body_read = "fail" THEN HttpError
        ELSE ApiError(resp.status, ParseRetryAfter(resp.header))
    ELSE OkResult

\* A variant of is_retryable that treats every 5xx status as retryable.
is_retryable_5xx(err) ==
    CASE err.kind = "Http" -> TRUE
      [] err.kind = "Api" -> err.status = 429 \/ err.status >= 500
      [] OTHER -> FALSE

is_retryable(err) ==
    CASE err.kind = "Http" -> TRUE
      [] err.kind = "Api" -> err.status \in {429, 500, 502, 503, 529}
      [] OTHER -> FALSE

\* A variant of retry_delay that shifts by the attempt number, not by attempt - 1.
retry_delay_shifted(err, k) ==
    IF err.kind = "Api" /\ err.retry_after # {}
    THEN CHOOSE secs \in err.retry_after : TRUE
    ELSE 2 ^ k

\* 1u64 << (attempt - 1): attempt is at most MAX_ATTEMPTS, far below the
\* width of u64, so the shift never wraps.
retry_delay(err, k) ==
    IF err.kind = "Api" /\ err.retry_after # {}
    THEN CHOOSE secs \in err.retry_after : TRUE
    ELSE 2 ^ (k - 1)

\* A variant of retry_arm that also retries after the last attempt.
retry_arm_inclusive(err, k) == k <= MAX_ATTEMPTS /\ is_retryable(err)

\* The guard of the retry arm of send_stream's match.
retry_arm(err, k) == k < MAX_ATTEMPTS /\ is_retryable(err)

\* let body = serde_json::to_string(request)?;
Serialize ==
    /\ api_pc = "serialize"
    /\ body_serialized' = body_serialized + 1
    /\ \E ok \in BOOLEAN :
        IF ok
        THEN /\ api_pc' = "try"
             /\ attempt' = 1
             /\ api_result' = api_result
        ELSE /\ api_pc' = "returned"
             /\ attempt' = attempt
             /\ api_result' = {JsonError}
    /\ UNCHANGED <<tried, slept>>

\* One iteration of `for attempt in 1..=MAX_ATTEMPTS`.
Attempt ==
    /\ api_pc = "try"
    /\ \E resp \in Responses :
        LET r == try_send(resp) IN
        /\ tried' = Append(tried, r)
        /\ IF r.kind = "Ok"
           THEN /\ api_pc' = "returned"
                /\ api_result' = {r}
                /\ UNCHANGED <<attempt, slept>>
           ELSE IF retry_arm(r, attempt)
           THEN /\ slept' = Append(slept, retry_delay(r, attempt))
                /\ attempt' = attempt + 1
                /\ UNCHANGED <<api_pc, api_result>>
           ELSE /\ api_pc' = "returned"
                /\ api_result' = {r}
                /\ UNCHANGED <<attempt, slept>>
    /\ UNCHANGED body_serialized

ApiIdle ==
    /\ api_pc = "idle"
    /\ attempt = 0
    /\ body_serialized = 0
    /\ tried = <<>>
    /\ slept = <<>>
    /\ api_result = {}

ApiStart ==
    /\ api_pc = "serialize"
    /\ attempt = 0
    /\ body_serialized = 0
    /\ tried = <<>>
    /\ slept = <<>>
    /\ api_result = {}

(***************************************************************************)
(* The states of the parts a specification does not exercise.              *)
(***************************************************************************)
ReaderIdle ==
    /\ rd_pc = "idle"
    /\ event_type = ""
    /\ data = <<>>
    /\ lines = <<>>
    /\ eintr = 0
    /\ rd_result = {}
    /\ frame = <<>>

BashIdle ==
    /\ b_pc = "idle"
    /\ timeout_secs = 0
    /\ now = 0
    /\ polled = 0
    /\ child = [state |-> "none", ended |-> 0]
    /\ orphans = FALSE
    /\ rx = {}
    /\ b_result = {}

RoundTripIdle ==
    /\ rt_pc = "idle"
    /\ saved = {}
    /\ record = <<>>
    /\ loaded = {}

\* No call of push_message, find_cut_point, next_event, run_bash,
\* save_message or load_session is in progress.
FnIdle ==
    /\ p_pc = 0 /\ pending = {} /\ cut_point = {}
    /\ ReaderIdle /\ BashIdle /\ RoundTripIdle

\* Every write of the transcript and of the index succeeds.
Sound == storage = "sound"

SessionOff ==
    /\ s_pc = "off"
    /\ messages = <<>>
    /\ transcript = <<>>
    /\ disk = <<>>
    /\ indexed = {}
    /\ last_input_tokens = 0
    /\ tool_calls = <<>>
    /\ workers = <<>>
    /\ finished = <<>>
    /\ executed = {}
    /\ turns = 0
    /\ stderr = {}

(***************************************************************************)
(* The service.  In position "any" it may send any event at any time; in   *)
(* the other positions it follows the protocol: message-start, then        *)
(* blocks (content-block-start, deltas, content-block-stop), then          *)
(* message-delta, then message-stop.                                       *)
(***************************************************************************)
MaxEvents == 4

MaxWfEvents == 8

ToolIds == {"t1", "t2"}

EventsAny ==
    { MessageStart(100), ContentBlockStart("thinking", "", ""),
      ContentBlockStart("text", "", ""),
      ContentBlockStart("tool_use", "t1", "bash"),
      ContentBlockDelta("thinking", <<"t">>),
      ContentBlockDelta("text", <<"a">>),
      ContentBlockDelta("input_json", <<"1">>),
      ContentBlockStop, MessageDelta("tool_use", 1), MessageStop, Ping }

WfDeltas ==
    { ContentBlockDelta("thinking", <<"t">>),
      ContentBlockDelta("signature", <<"s">>),
      ContentBlockDelta("text", <<"h", "i">>),
      ContentBlockDelta("text", <<"a">>),
      ContentBlockDelta("input_json", <<"{">>),
      ContentBlockDelta("input_json", <<"}">>),
      ContentBlockDelta("input_json", <<"1">>) }

\* The call ids the service has used in this response.
UsedIds(evs) == { evs[i].id : i \in 1..Len(evs) } \ {""}

\* The service issues a fresh call id for every tool-use block.
FreshIds(evs) ==
    IF "t1" \notin UsedIds(evs) THEN {"t1"}
    ELSE IF "t2" \notin UsedIds(evs) THEN {"t2"}
    ELSE {}

WfStarts(evs) ==
    { ContentBlockStart("thinking", "", ""), ContentBlockStart("text", "", "") }
    \cup { ContentBlockStart("tool_use", id, "bash") : id \in FreshIds(evs) }

Offer(pos, evs) ==
    CASE pos = "any" ->
            IF Len(evs) < MaxEvents THEN EventsAny ELSE {}
      [] pos = "start" -> { MessageStart(100) }
      [] pos = "blocks" ->
            (IF Len(evs) + 3 < MaxWfEvents THEN WfStarts(evs) ELSE {})
            \cup { MessageDelta(sr, 1) : sr \in {"end_turn", "tool_use", "max_tokens"} }
      [] pos = "in_block" ->
            (IF Len(evs) + 3 < MaxWfEvents THEN WfDeltas ELSE {})
            \cup { ContentBlockStop }
      [] pos = "delta_sent" -> { MessageStop }
      [] OTHER -> {}

ServerNext(pos, ev) ==
    CASE pos = "any" -> "any"
      [] ev.type = "message_start" -> "blocks"
      [] ev.type = "content_block_start" -> "in_block"
      [] ev.type = "content_block_delta" -> "in_block"
      [] ev.type = "content_block_stop" -> "blocks"
      [] ev.type = "message_delta" -> "delta_sent"
      [] OTHER -> "end"

(***************************************************************************)
(* stream.rs: stream_response, one action per step of the function.        *)
(***************************************************************************)
\* The results send_stream returns to its callers.
SendResults == {"Ok", "Http", "Api", "Json"}

Cur ==
    Reducer(content, usage, stop_reason, interrupted, block,
            [timer |-> timer, thread |-> timer_thread])

Install(r) ==
    /\ content' = r.content
    /\ usage' = r.usage
    /\ stop_reason' = r.stop_reason
    /\ interrupted' = r.interrupted
    /\ block' = r.block
    /\ timer' = r.tm.timer
    /\ timer_thread' = r.tm.thread

\* `return` / `?`: the locals go out of scope.
Leave(r, pc, result) ==
    /\ Install([r EXCEPT !.tm = drop_timer(r.tm)])
    /\ st_pc' = pc
    /\ st_result' = {result}

\* signal::clear(); ThinkingTimer::start(); api::send_stream(config, request)?
StreamCall ==
    /\ st_pc = "call"
    /\ INTERRUPTED' = FALSE
    /\ \E res \in SendResults :
        LET r == reducer_init(timer_start) IN
        IF res = "Ok"
        THEN /\ Install(r)
             /\ st_pc' = "loop"
             /\ st_result' = st_result
        ELSE Leave(r, "failed", StreamError(res))
    /\ UNCHANGED <<events, raws, server>>

\* reader.next_event()? returns Some(ev): next_event dispatches an event
\* only if the flag was clear before the read that completed it.
StreamEvent ==
    /\ st_pc = "loop"
    /\ ~INTERRUPTED
    /\ \E ev \in Offer(server, events) :
        /\ events' = Append(events, ev)
        /\ raws' = Append(raws, Encode(ev))
        /\ server' = ServerNext(server, ev)
        /\ IF ev.type = "message_stop"
           THEN Leave(Cur, "returned", StreamResult(Cur))
           ELSE /\ Install(on_event(Cur, ev))
                /\ UNCHANGED <<st_pc, st_result>>
    /\ UNCHANGED INTERRUPTED

\* reader.next_event()? returns None: end of stream, or the flag is set.
StreamNone ==
    /\ st_pc = "loop"
    /\ LET r == on_none(Cur, INTERRUPTED) IN
        Leave(r, "returned", StreamResult(r))
    /\ UNCHANGED <<INTERRUPTED, events, raws, server>>

\* reader.next_event()? returns Err: a payload that does not parse, or an
\* I/O error of the read.
StreamDecodeError ==
    /\ st_pc = "loop"
    /\ ~INTERRUPTED
    /\ \E e \in {"Json", "Io"} : Leave(Cur, "failed", StreamError(e))
    /\ UNCHANGED <<INTERRUPTED, events, raws, server>>

\* signal.rs handler: SIGINT is delivered.
SigInt ==
    /\ ~INTERRUPTED
    /\ INTERRUPTED' = TRUE

StreamIdle ==
    /\ st_pc = "idle"
    /\ timer = {}
    /\ timer_thread = "not_started"
    /\ content = <<>>
    /\ usage = [input_tokens |-> 0, output_tokens |-> 0]
    /\ stop_reason = "end_turn"
    /\ interrupted = FALSE
    /\ block = Idle
    /\ events = <<>>
    /\ raws = <<>>
    /\ server = "any"
    /\ st_result = {}

StreamStart(pos) ==
    /\ st_pc = "call"
    /\ timer = {}
    /\ timer_thread = "not_started"
    /\ content = <<>>
    /\ usage = [input_tokens |-> 0, output_tokens |-> 0]
    /\ stop_reason = "end_turn"
    /\ interrupted = FALSE
    /\ block = Idle
    /\ events = <<>>
    /\ raws = <<>>
    /\ server = pos
    /\ st_result = {}

StreamNext ==
    \/ (StreamCall \/ StreamEvent \/ StreamNone \/ StreamDecodeError)
         /\ UNCHANGED <<apiVars, sessVars, fnVars, storage>>
    \/ SigInt /\ UNCHANGED <<apiVars, streamVars, sessVars, fnVars, storage>>

\* stream_response against a service that may send any event sequence.
StreamInit ==
    ApiIdle /\ INTERRUPTED \in BOOLEAN /\ StreamStart("any") /\ SessionOff
    /\ FnIdle /\ Sound

SpecStream == StreamInit /\ [][StreamNext]_vars

\* stream_response against a service that follows the protocol.
WfInit ==
    ApiIdle /\ INTERRUPTED \in BOOLEAN /\ StreamStart("start") /\ SessionOff
    /\ FnIdle /\ Sound

SpecWf == WfInit /\ [][StreamNext]_vars
(***************************************************************************)
(* types.rs: Message.  content is Content::Text(text) when kind = "Text"   *)
(* and Content::Blocks(blocks) when kind = "Blocks".                       *)
(***************************************************************************)
Msg(role, kind, text, blocks) ==
    [role |-> role, kind |-> kind, text |-> text, blocks |-> blocks]

UserText(text) == Msg("User", "Text", text, <<>>)

AssistantText(text) == Msg("Assistant", "Text", text, <<>>)

BlocksMsg(role, blocks) == Msg(role, "Blocks", "", blocks)

(***************************************************************************)
(* agent.rs: compaction                                                    *)
(***************************************************************************)
COMPACT_THRESHOLD == 160000

KEEP_RECENT_TOKENS == 40000

CeilDiv(a, b) == (a + b - 1) \div b

Max(a, b) == IF a >= b THEN a ELSE b

SetMin(S) == CHOOSE x \in S : \A y \in S : x <= y

\* A variant of IsUserText that takes a user message of any content.
IsUserAny(m) == m.role = "User"

\* msg.role == Role::User && matches!(&msg.content, Content::Text(_))
IsUserText(m) == m.role = "User" /\ m.kind = "Text"

\* The odd part of a positive integer.
RECURSIVE OddPart(_)
OddPart(n) == IF n % 2 = 0 THEN OddPart(n \div 2) ELSE n

\* KEEP_RECENT_TOKENS as f64 / input_tokens as f64 is a binary fraction, and
\* so has no rounding error, when the odd part of input_tokens divides the
\* odd part of KEEP_RECENT_TOKENS.
ExactRatio(input_tokens) ==
    OddPart(KEEP_RECENT_TOKENS) % OddPart(input_tokens) = 0

\* usize::MAX, the value of a cast of infinity, as far as the integers of
\* the checker go: more than every length.
USIZE_MAX == 2147483647

\* (messages.len() as f64 * keep_ratio).ceil() as usize, for len > 0.  The
\* two roundings of the division and of the product are far smaller than
\* the distance of a fractional quotient to an integer, so only a product
\* that is an integer in exact arithmetic may come out just above it, and
\* its ceiling one more.  With input_tokens = 0 the ratio is infinite and
\* the cast saturates.
ceil_product(len, input_tokens) ==
    IF input_tokens = 0 THEN {USIZE_MAX}
    ELSE LET q == (len * KEEP_RECENT_TOKENS) \div input_tokens
             r == (len * KEEP_RECENT_TOKENS) % input_tokens
         IN  IF r # 0 THEN {q + 1}
             ELSE IF ExactRatio(input_tokens) THEN {q}
             ELSE {q, q + 1}

\* A variant of keep_count without the floor.
keep_count_unfloored(c) == c

\* A variant of keep_count whose floor is 5 messages instead of 4.
keep_count_floor5(c) == Max(c, 5)

\* let keep_count = keep_count.max(4);
keep_count(c) == Max(c, 4)

\* A variant of scan that returns the last user text message.
scan_last(msgs, target) ==
    LET found == { i \in target..(Len(msgs) - 1) : IsUserText(msgs[i + 1]) }
    IN  IF found = {} THEN 0 ELSE CHOOSE x \in found : \A y \in found : y <= x

\* The loop of find_cut_point: the first index from target on of a user
\* text message, 0 when there is none.  Indices are 0-based, as in the
\* source.
scan(msgs, target) ==
    LET found == { i \in target..(Len(msgs) - 1) : IsUserText(msgs[i + 1]) }
    IN  IF found = {} THEN 0 ELSE SetMin(found)

\* find_cut_point after the test of the length, for the value c of the
\* ceiling: the keep_count and the index returned.
cut_for(msgs, c) ==
    LET kc == keep_count(c) IN
    [keep_count |-> {kc},
     cut |-> IF kc >= Len(msgs) THEN 0 ELSE scan(msgs, Len(msgs) - kc)]

\* What find_cut_point can compute: the keep_count, if it gets that far,
\* and the index returned.
find_cut_point_runs(msgs, input_tokens) ==
    IF Len(msgs) < 6 THEN {[keep_count |-> {}, cut |-> 0]}
    ELSE { cut_for(msgs, c) : c \in ceil_product(Len(msgs), input_tokens) }

\* The indices find_cut_point can return.
find_cut_point(msgs, input_tokens) ==
    { r.cut : r \in find_cut_point_runs(msgs, input_tokens) }

\* What the summarization request does: the result of send_stream, and how
\* the event stream of the summary ends.
SummaryScripts ==
    [send : SendResults, end : {"message_stop", "eof", "error"}]

\* generate_summary does not clear the cancellation flag: with the flag set
\* its first next_event returns None and the summary is empty.
generate_summary(is_interrupted, script) ==
    IF script.send # "Ok" THEN [kind |-> script.send, summary |-> ""]
    ELSE IF is_interrupted THEN [kind |-> "Ok", summary |-> "empty"]
    ELSE CASE script.end = "message_stop" ->
                 [kind |-> "Ok", summary |-> "complete"]
           [] script.end = "eof" -> [kind |-> "Ok", summary |-> "partial"]
           [] OTHER -> [kind |-> "Json", summary |-> ""]

\* A variant of compact that cuts one message further.
compact_cuts_further(msgs, cut, is_interrupted, script) ==
    IF cut = 0 THEN [kind |-> "Ok", messages |-> msgs, cut |-> 0]
    ELSE
        LET sum == generate_summary(is_interrupted, script) IN
        IF sum.kind # "Ok"
        THEN [kind |-> sum.kind, messages |-> msgs, cut |-> cut]
        ELSE [kind |-> "Ok",
              messages |->
                  << UserText("<context>" \o sum.summary),
                     AssistantText("Understood") >>
                  \o SubSeq(msgs, cut + 2, Len(msgs)),
              cut |-> cut]

\* compact: the new history, or the error of generate_summary.
compact(msgs, cut, is_interrupted, script) ==
    IF cut = 0 THEN [kind |-> "Ok", messages |-> msgs, cut |-> 0]
    ELSE
        LET sum == generate_summary(is_interrupted, script) IN
        IF sum.kind # "Ok"
        THEN [kind |-> sum.kind, messages |-> msgs, cut |-> cut]
        ELSE [kind |-> "Ok",
              messages |->
                  << UserText("<context>" \o sum.summary),
                     AssistantText("Understood") >>
                  \o SubSeq(msgs, cut + 1, Len(msgs)),
              cut |-> cut]

(***************************************************************************)
(* stream.rs: stream_response as a function of what the service and the    *)
(* operator do during the call.  A script is the result of send_stream,    *)
(* the events the decoder returns, and how the stream ends when no         *)
(* message-stop is among them: "eof", "interrupt" (SIGINT arrives, the     *)
(* next next_event returns None) or "error" (next_event returns Err).      *)
(***************************************************************************)
RECURSIVE fold_events(_, _)
fold_events(r, evs) ==
    IF evs = <<>> THEN [r |-> r, stopped |-> FALSE]
    ELSE IF evs[1].type = "message_stop" THEN [r |-> r, stopped |-> TRUE]
    ELSE fold_events(on_event(r, evs[1]), Tail(evs))

\* result: what stream_response returns; flag: INTERRUPTED on return.
stream_response(script) ==
    IF script.send # "Ok"
    THEN [result |-> StreamError(script.send), flag |-> FALSE]
    ELSE
        LET f == fold_events(reducer_init(timer_start), script.evs) IN
        IF f.stopped THEN [result |-> StreamResult(f.r), flag |-> FALSE]
        ELSE CASE script.end = "interrupt" ->
                     [result |-> StreamResult(on_none(f.r, TRUE)),
                      flag |-> TRUE]
               [] script.end = "eof" ->
                     [result |-> StreamResult(on_none(f.r, FALSE)),
                      flag |-> FALSE]
               [] OTHER -> [result |-> StreamError("Json"), flag |-> FALSE]

\* The responses of the service in a session: a text answer, a request for
\* two tool calls, and answers cut at the output limit.
TextTurn(n) ==
    << MessageStart(n), ContentBlockStart("text", "", ""),
       ContentBlockDelta("text", <<"a">>), ContentBlockStop,
       MessageDelta("end_turn", 1), MessageStop >>

ToolTurn(n) ==
    << MessageStart(n), ContentBlockStart("tool_use", "t1", "bash"),
       ContentBlockStop, ContentBlockStart("tool_use", "t2", "bash"),
       ContentBlockStop, MessageDelta("tool_use", 1), MessageStop >>

MaxTokensTurn(n) ==
    << MessageStart(n), ContentBlockStart("text", "", ""),
       ContentBlockDelta("text", <<"a">>), ContentBlockStop,
       MessageDelta("max_tokens", 1), MessageStop >>

\* A response cut at the output limit before any content block.
EmptyMaxTokensTurn(n) ==
    << MessageStart(n), MessageDelta("max_tokens", 0), MessageStop >>

\* Reported input-token counts: below, at and above COMPACT_THRESHOLD.
TokenCounts == {100, 160000, 200000}

FullTurns ==
    UNION { {TextTurn(n), ToolTurn(n), MaxTokensTurn(n)} : n \in TokenCounts }
    \cup { EmptyMaxTokensTurn(100) }

TurnScripts ==
    { [send |-> k, evs |-> <<>>, end |-> "eof"] : k \in SendResults \ {"Ok"} }
    \cup { [send |-> "Ok", evs |-> t, end |-> "eof"] : t \in FullTurns }
    \cup UNION { { [send |-> "Ok", evs |-> SubSeq(t, 1, k), end |-> e] :
                      k \in 0..(Len(t) - 1),
                      e \in {"interrupt", "eof", "error"} } : t \in FullTurns }

\* What stream_response can return in a session.
TurnOutcomes == { stream_response(sc) : sc \in TurnScripts }

\* The latest transcript an earlier run of the program left on disk: two
\* text turns.
PriorSession ==
    << UserText("text"), BlocksMsg("Assistant", <<TextBlock(<<"a">>)>>),
       UserText("text"), BlocksMsg("Assistant", <<TextBlock(<<"a">>)>>) >>

(***************************************************************************)
(* agent.rs: the turn loop                                                 *)
(***************************************************************************)
MaxTurns == 2

\* The bound on the turns of a session on a faulty file system.
MaxFaultyTurns == 1

TurnBound == IF storage = "sound" THEN MaxTurns ELSE MaxFaultyTurns

\* The tool_use blocks of the content, in order.
ToolCallsOf(blocks) == SelectSeq(blocks, LAMBDA b : b.type = "tool_use")

\* A worker: where it is, what tool::execute returned to it ("none" before
\* that) and the block it returns.
Spawned ==
    [state |-> "spawned", ret |-> "none",
     result |-> ToolResultBlock("", <<>>, {})]

\* What can happen in save_message: the record is appended, or the
\* serialization, the open or the write fails.
SaveOutcomes ==
    IF storage = "sound" THEN {"ok"}
    ELSE {"ok", "serialize_err", "open_err", "write_err"}

\* save_message: the file after the call and the warnings printed.  Every
\* failure prints a warning and returns; a failed write is taken to have
\* written nothing.
save_message(file, m, outcome) ==
    IF outcome = "ok"
    THEN [file |-> Append(file, m), warnings |-> {}]
    ELSE [file |-> file, warnings |-> {"warning"}]

\* A variant of push_message that does not push a message it could not
\* save.
push_message_saved_only(msgs, file, m, outcome) ==
    LET sv == save_message(file, m, outcome) IN
    [messages |-> IF outcome = "ok" THEN Append(msgs, m) ELSE msgs,
     file |-> sv.file, warnings |-> sv.warnings]

\* Session::push_message: save_message(&self.file, &msg), then
\* self.messages.push(msg).
push_message(msgs, file, m, outcome) ==
    LET sv == save_message(file, m, outcome) IN
    [messages |-> Append(msgs, m), file |-> sv.file,
     warnings |-> sv.warnings]

\* A call of push_message inside a step of the loop; notes are the other
\* notices of the step.
\* session.entry.message_count = n; session::update_entry(..): the record of
\* the session in the index file afterwards.  save_index drops the error of
\* a failed write, and the record is then as it was.
update_entry(n) == IF storage = "sound" THEN {{n}} ELSE {{n}, indexed}

PushMessage(msgs, m, notes) ==
    \E p \in { push_message(msgs, transcript, m, outcome) :
                 outcome \in SaveOutcomes } :
        /\ transcript' = p.file
        /\ messages' = p.messages
        /\ stderr' = notes \cup p.warnings

\* if result.interrupted && result.content.is_empty() { skip to prompt }
skips_to_prompt(res) == res.interrupted /\ res.content = <<>>

\* A variant of dispatches that ignores the interrupted flag.
dispatches_when_interrupted(res) == res.stop_reason = "tool_use"

\* if !result.interrupted && result.stop_reason == StopReason::ToolUse
dispatches(res) == ~res.interrupted /\ res.stop_reason = "tool_use"

\* A variant of is_truncated that never ends the loop.
is_truncated_never(res) == FALSE

\* if result.stop_reason == StopReason::MaxTokens { warning; break }
is_truncated(res) == res.stop_reason = "max_tokens"

\* A variant of over_threshold that takes the threshold itself as over it.
over_threshold_inclusive(n) == n >= COMPACT_THRESHOLD

\* if last_input_tokens > COMPACT_THRESHOLD { compact(...)?; }
over_threshold(n) == n > COMPACT_THRESHOLD

\* One iteration of the loop of run_session up to the dispatch condition,
\* the break or the prompt: compaction, request, stream_response, push.
Turn ==
    /\ s_pc = "top"
    /\ turns < TurnBound
    /\ turns' = turns + 1
    /\ finished' = <<>>
    /\ \E gs \in IF over_threshold(last_input_tokens)
                 THEN SummaryScripts
                 ELSE {[send |-> "Ok", end |-> "message_stop"]} :
       \E sr \in TurnOutcomes,
          cut \in find_cut_point(messages, last_input_tokens) :
        LET c == IF over_threshold(last_input_tokens)
                 THEN compact(messages, cut, INTERRUPTED, gs)
                 ELSE [kind |-> "Ok", messages |-> messages, cut |-> 0]
            res == sr.result
            asst == BlocksMsg("Assistant", res.content)
            calls == ToolCallsOf(res.content)
        IN
        IF c.kind # "Ok"
        THEN \* compact(...)? : the error leaves run_session, run and main
             /\ s_pc' = "exit_err"
             /\ stderr' = {"error"}
             /\ UNCHANGED <<messages, transcript, last_input_tokens,
                            tool_calls, workers, executed, INTERRUPTED,
                            st_result>>
        ELSE IF res.kind # "Ok"
        THEN \* stream_response(...)? : the same
             /\ s_pc' = "exit_err"
             /\ stderr' = {"error"}
             /\ messages' = c.messages
             /\ INTERRUPTED' = sr.flag
             /\ st_result' = {res}
             /\ UNCHANGED <<transcript, last_input_tokens, tool_calls,
                            workers, executed>>
        ELSE
             /\ last_input_tokens' = res.usage.input_tokens
             /\ st_result' = {res}
             /\ IF skips_to_prompt(res)
                THEN /\ messages' = c.messages
                     /\ s_pc' = "input"
                     /\ INTERRUPTED' = sr.flag
                     /\ stderr' = {}
                     /\ UNCHANGED <<transcript, tool_calls, workers,
                                    executed>>
                ELSE /\ INTERRUPTED' = sr.flag
                     /\ UNCHANGED <<workers, executed>>
                     /\ IF dispatches(res)
                        THEN /\ PushMessage(c.messages, asst, {})
                             /\ s_pc' = "spawn"
                             /\ tool_calls' = calls
                        ELSE IF is_truncated(res)
                        THEN /\ PushMessage(c.messages, asst, {"truncated"})
                             /\ s_pc' = "exit_ok"
                             /\ UNCHANGED tool_calls
                        ELSE /\ PushMessage(c.messages, asst, {})
                             /\ s_pc' = "input"
                             /\ UNCHANGED tool_calls
    \* the index is updated on the way to read_input only
    /\ indexed' \in IF s_pc' = "input"
                     THEN update_entry(Len(messages'))
                     ELSE {indexed}
    /\ UNCHANGED disk

(***************************************************************************)
(* agent.rs: the tool dispatch (std::thread::scope)                        *)
(***************************************************************************)
CancelledText == <<"(cancelled)">>

\* What tool::execute returns: Ok(output) or Err(error).
ToolOutcomes == {"output", "error"}

\* A variant of tool_result that returns a failure without the error flag.
tool_result_unflagged(call, outcome) ==
    CASE outcome = "output" -> ToolResultBlock(call.id, <<"out">>, {})
      [] OTHER -> ToolResultBlock(call.id, <<"tool error">>, {})

\* The worker's mapping of the outcome of tool::execute to a result block.
tool_result(call, outcome) ==
    CASE outcome = "output" -> ToolResultBlock(call.id, <<"out">>, {})
      [] OTHER -> ToolResultBlock(call.id, <<"tool error">>, {TRUE})

\* signal::clear(); then the scope spawns one worker per tool call.  A
\* SIGINT delivered before the clear is discarded here.
SpawnWorkers ==
    /\ s_pc = "spawn"
    /\ s_pc' = "dispatch"
    /\ INTERRUPTED' = FALSE
    /\ workers' = [i \in 1..Len(tool_calls) |-> Spawned]
    /\ executed' = {}
    /\ UNCHANGED <<messages, transcript, disk, indexed, last_input_tokens,
                   tool_calls, finished, turns, stderr>>

\* A variant of worker_start that calls the tool whatever the flag.
worker_start_unchecked(call, is_interrupted) ==
    [Spawned EXCEPT !.state = "executing"]

\* The head of the worker closure:
\* if signal::is_interrupted() { return ToolResult { "(cancelled)" } }
\* otherwise the worker goes on to call tool::execute.
worker_start(call, is_interrupted) ==
    IF is_interrupted
    THEN [Spawned EXCEPT
            !.state = "done",
            !.result = ToolResultBlock(call.id, CancelledText, {TRUE})]
    ELSE [Spawned EXCEPT !.state = "executing"]

WorkerStart(i) ==
    /\ s_pc = "dispatch"
    /\ workers[i].state = "spawned"
    /\ LET w == worker_start(tool_calls[i], INTERRUPTED) IN
        /\ workers' = [workers EXCEPT ![i] = w]
        /\ IF w.state = "done"
           THEN /\ finished' = Append(finished, i)
                /\ executed' = executed
           ELSE /\ executed' = executed \cup {i}
                /\ finished' = finished
    /\ UNCHANGED <<s_pc, messages, transcript, disk, indexed,
                   last_input_tokens,
                   tool_calls, turns, stderr, INTERRUPTED>>

\* tool::execute returns and the worker returns its result block.
WorkerFinish(i) ==
    /\ s_pc = "dispatch"
    /\ workers[i].state = "executing"
    /\ \E outcome \in ToolOutcomes :
        workers' = [workers EXCEPT ![i] =
                      [state |-> "done", ret |-> outcome,
                       result |-> tool_result(tool_calls[i], outcome)]]
    /\ finished' = Append(finished, i)
    /\ UNCHANGED <<s_pc, messages, transcript, disk, indexed,
                   last_input_tokens,
                   tool_calls, executed, turns, stderr, INTERRUPTED>>

\* A variant of collect_results that returns the results in the order the workers finished.
collect_in_completion_order(ws, done) ==
    [k \in 1..Len(ws) |-> ws[done[k]].result]

\* handles.into_iter().map(|h| h.join().unwrap()).collect()
collect_results(ws, done) == [k \in 1..Len(ws) |-> ws[k].result]

\* A variant of JoinWorkers that does not wait for the workers: the scope
\* ends with workers still running.
JoinWorkersEarly ==
    /\ s_pc = "dispatch"
    /\ LET results == collect_results(workers, finished) IN
        PushMessage(messages, BlocksMsg("User", results),
                    IF INTERRUPTED THEN {"tools interrupted"} ELSE {})
    /\ INTERRUPTED' = FALSE
    /\ s_pc' = "top"
    /\ tool_calls' = <<>>
    /\ workers' = <<>>
    /\ executed' = {}
    /\ UNCHANGED <<disk, indexed, last_input_tokens, finished, turns>>

\* The scope ends when every worker is joined; the control thread clears
\* the flag, pushes the results message and continues the loop.
JoinWorkers ==
    /\ s_pc = "dispatch"
    /\ \A i \in 1..Len(workers) : workers[i].state = "done"
    /\ LET results == collect_results(workers, finished) IN
        PushMessage(messages, BlocksMsg("User", results),
                    IF INTERRUPTED THEN {"tools interrupted"} ELSE {})
    /\ INTERRUPTED' = FALSE
    /\ s_pc' = "top"
    \* the locals of the iteration go out of scope
    /\ tool_calls' = <<>>
    /\ workers' = <<>>
    /\ executed' = {}
    /\ UNCHANGED <<disk, indexed, last_input_tokens, finished, turns>>

(***************************************************************************)
(* command.rs: read_input.  Commands that only print and prompt again      *)
(* change nothing and are left out; a line is "text" when it pushes a user *)
(* message (plain text, or a shell escape whose output is sent).           *)
(***************************************************************************)
\* read_input(.., at_startup = true) in run, then the start of run_session.
StartupInput ==
    /\ s_pc = "startup"
    /\ \E line \in {"text", "quit", "resume", "io_error"} :
        CASE line = "text" ->
                /\ PushMessage(messages, UserText(line), {})
                /\ s_pc' = "top"
          [] line = "resume" ->
                \* try_resume: the latest indexed session, if it has messages
                /\ disk # <<>>
                /\ messages' = disk
                /\ transcript' = disk
                /\ s_pc' = "top"
                /\ UNCHANGED stderr
          [] line = "quit" ->
                /\ s_pc' = "exit_ok"
                /\ UNCHANGED <<messages, transcript, stderr>>
          [] OTHER ->
                /\ s_pc' = "exit_err"
                /\ stderr' = {"error"}
                /\ UNCHANGED <<messages, transcript>>
    \* run: the entry is put in the index once read_input returns Ready
    /\ indexed' \in IF s_pc' = "top"
                     THEN update_entry(Len(messages'))
                     ELSE {indexed}
    /\ last_input_tokens' = 0
    /\ UNCHANGED <<disk, tool_calls, workers, finished, executed, turns,
                   INTERRUPTED>>

\* read_input(.., at_startup = false) at the bottom of the loop.
Input ==
    /\ s_pc = "input"
    /\ \E line \in {"text", "quit", "new", "io_error"} :
        CASE line = "text" ->
                /\ PushMessage(messages, UserText(line), {})
                /\ s_pc' = "top"
                /\ UNCHANGED <<disk, indexed, last_input_tokens>>
          [] line = "quit" ->
                /\ s_pc' = "exit_ok"
                /\ UNCHANGED <<messages, transcript, disk, indexed, stderr,
                               last_input_tokens>>
          [] line = "new" ->
                \* run_session returns true: run creates a fresh Session.
                \* The session left behind is the latest of the index
                \* unless every write of the index failed.
                /\ s_pc' = "startup"
                /\ disk' \in IF storage = "sound" THEN {transcript}
                              ELSE {transcript, disk}
                /\ indexed' = {}
                /\ messages' = <<>>
                /\ transcript' = <<>>
                /\ last_input_tokens' = 0
                /\ UNCHANGED stderr
          [] OTHER ->
                /\ s_pc' = "exit_err"
                /\ stderr' = {"error"}
                /\ UNCHANGED <<messages, transcript, disk, indexed,
                               last_input_tokens>>
    /\ UNCHANGED <<tool_calls, workers, finished, executed, turns,
                   INTERRUPTED>>

SessionStart ==
    /\ s_pc = "startup"
    /\ messages = <<>>
    /\ transcript = <<>>
    /\ disk \in {<<>>, PriorSession}
    /\ indexed = {}
    /\ last_input_tokens = 0
    /\ tool_calls = <<>>
    /\ workers = <<>>
    /\ finished = <<>>
    /\ executed = {}
    /\ turns = 0
    /\ stderr = {}

SessionNext ==
    \/ Turn /\ UNCHANGED <<apiVars, streamLocals, fnVars, storage>>
    \/ (SpawnWorkers \/ JoinWorkers \/ StartupInput \/ Input)
         /\ UNCHANGED <<apiVars, streamVars, fnVars, storage>>
    \/ (\E i \in 1..Len(workers) : WorkerStart(i) \/ WorkerFinish(i))
         /\ UNCHANGED <<apiVars, streamVars, fnVars, storage>>
    \/ (SigInt /\ s_pc \notin {"exit_ok", "exit_err"})
         /\ UNCHANGED <<apiVars, streamVars, sessVars, fnVars, storage>>

\* The tool dispatch of one turn, from the point where the dispatch
\* condition held: the turn pushed an Assistant message with n tool calls.
\* A SIGINT may have been delivered since the stream was last read.
MaxCalls == 3

DispatchIds == <<"t1", "t2", "t3", "t4", "t5">>

DispatchCalls(n) ==
    [i \in 1..n |-> ToolUseBlock(DispatchIds[i], "bash", EmptyObject)]

DispatchStart(n) ==
    /\ s_pc = "spawn"
    /\ messages = <<UserText("text"), BlocksMsg("Assistant", DispatchCalls(n))>>
    /\ transcript = messages
    /\ disk = <<>>
    /\ indexed = {1}
    /\ last_input_tokens = 100
    /\ tool_calls = DispatchCalls(n)
    /\ workers = <<>>
    /\ finished = <<>>
    /\ executed = {}
    /\ turns = 1
    /\ stderr = {}

DispatchInit ==
    /\ ApiIdle /\ INTERRUPTED \in BOOLEAN /\ StreamIdle /\ FnIdle /\ Sound
    /\ \E n \in 0..MaxCalls : DispatchStart(n)

DispatchNext ==
    \/ (SpawnWorkers \/ JoinWorkers) /\ UNCHANGED <<apiVars, streamVars, fnVars, storage>>
    \/ (\E i \in 1..Len(workers) : WorkerStart(i) \/ WorkerFinish(i))
         /\ UNCHANGED <<apiVars, streamVars, fnVars, storage>>
    \/ (SigInt /\ s_pc \in {"spawn", "dispatch"})
         /\ UNCHANGED <<apiVars, streamVars, sessVars, fnVars, storage>>

SpecDispatch == DispatchInit /\ [][DispatchNext]_vars

\* The process from its start: main, run, run_session.
SessionInit ==
    /\ ApiIdle /\ INTERRUPTED = FALSE /\ StreamIdle /\ SessionStart
    /\ FnIdle /\ Sound

SpecSession == SessionInit /\ [][SessionNext]_vars

\* The process from its start on a file system whose writes may fail.
PersistInit ==
    /\ ApiIdle /\ INTERRUPTED = FALSE /\ StreamIdle /\ SessionStart
    /\ FnIdle /\ storage = "faulty"

SpecPersist == PersistInit /\ [][SessionNext]_vars

(***************************************************************************)
(* agent.rs: Session::push_message statement by statement, on a file       *)
(* system whose writes may fail.                                           *)
(***************************************************************************)
MaxPushes == 3

\* The messages the loop pushes: a user line, an assistant answer, an
\* assistant tool call and its results.
PushedMessages ==
    { UserText("text"),
      BlocksMsg("Assistant", <<TextBlock(<<"a">>)>>),
      BlocksMsg("Assistant", <<ToolUseBlock("t1", "bash", EmptyObject)>>),
      BlocksMsg("User", <<ToolResultBlock("t1", <<"out">>, {})>>) }

\* A variant of push_message_statements that pushes before it saves.
push_message_statements_swapped == <<"push", "save_message">>

\* The body of push_message:
\*     save_message(&self.file, &msg);
\*     self.messages.push(msg);
push_message_statements == <<"save_message", "push">>

\* The statement at position p_pc has run.
Advance ==
    IF p_pc = Len(push_message_statements)
    THEN p_pc' = 0 /\ pending' = {}
    ELSE p_pc' = p_pc + 1 /\ pending' = pending

\* session.push_message(msg) is called.
PushCall ==
    /\ p_pc = 0
    /\ Len(messages) < MaxPushes
    /\ \E m \in PushedMessages : pending' = {m}
    /\ p_pc' = 1
    /\ UNCHANGED <<messages, transcript, stderr>>

\* save_message(&self.file, &msg)
SaveStep ==
    /\ p_pc \in 1..Len(push_message_statements)
    /\ push_message_statements[p_pc] = "save_message"
    /\ \E m \in pending, outcome \in SaveOutcomes :
        LET sv == save_message(transcript, m, outcome) IN
        /\ transcript' = sv.file
        /\ stderr' = stderr \cup sv.warnings
    /\ Advance
    /\ UNCHANGED messages

\* self.messages.push(msg)
PushStep ==
    /\ p_pc \in 1..Len(push_message_statements)
    /\ push_message_statements[p_pc] = "push"
    /\ \E m \in pending : messages' = Append(messages, m)
    /\ Advance
    /\ UNCHANGED <<transcript, stderr>>

PushInit ==
    /\ ApiIdle /\ INTERRUPTED = FALSE /\ StreamIdle /\ SessionOff
    /\ FnIdle /\ storage = "faulty"

PushNext ==
    /\ PushCall \/ SaveStep \/ PushStep
    /\ UNCHANGED <<apiVars, INTERRUPTED, streamVars, cut_point, rdVars,
                   bashVars, rtVars, storage>>
    /\ UNCHANGED <<s_pc, disk, indexed, last_input_tokens, tool_calls, workers,
                   finished, executed, turns>>

SpecPush == PushInit /\ [][PushNext]_vars

ApiInit ==
    ApiStart /\ INTERRUPTED = FALSE /\ StreamIdle /\ SessionOff /\ FnIdle /\ Sound

\* SIGINT may be delivered at any point of send_stream, the sleep between
\* two attempts included.
ApiNext ==
    \/ (Serialize \/ Attempt)
         /\ UNCHANGED <<INTERRUPTED, streamVars, sessVars, fnVars, storage>>
    \/ (SigInt /\ api_pc # "returned")
         /\ UNCHANGED <<apiVars, streamVars, sessVars, fnVars, storage>>

SpecApi == ApiInit /\ [][ApiNext]_vars

(***************************************************************************)
(* Claims about the transport (SpecApi).                                   *)
(***************************************************************************)
ApiReturned == api_pc = "returned"

ApiReturnedWith(r) == ApiReturned /\ api_result = {r}

\* C4: send_stream serializes the body exactly once and makes at most 3
\* delivery attempts; the first success is returned, the first non-retryable
\* failure is returned at once without a sleep or a further attempt, and a
\* third retryable failure is returned without a sleep.
C4_BoundedAttempts ==
    /\ body_serialized <= 1
    /\ api_pc # "serialize" => body_serialized = 1
    /\ Len(tried) <= 3
    /\ ApiReturned \/ Len(slept) = Len(tried)
    /\ ApiReturned /\ tried # <<>> =>
          /\ Len(slept) = Len(tried) - 1
          /\ api_result = {tried[Len(tried)]}
    /\ \A i \in 1..Len(tried) :
          /\ tried[i].kind = "Ok" => i = Len(tried) /\ ApiReturnedWith(tried[i])
          /\ (tried[i].kind = "Api"
                /\ tried[i].status \notin {429, 500, 502, 503, 529})
             => i = Len(tried) /\ ApiReturnedWith(tried[i])
          /\ i = 3 => ApiReturnedWith(tried[i])

\* C4 witness: three retryable failures, the third returned after two sleeps.
C4_Witness ==
    /\ ApiReturned
    /\ Len(tried) = 3
    /\ Len(slept) = 2
    /\ tried[3].kind = "Api" /\ tried[3].status = 503

\* C5: an attempt is followed by another one only if it failed at transport
\* level or with status 429, 500, 502, 503 or 529; any other non-200 status
\* and a serialization failure end the request with that error.
C5_RetryOnlyRetryable ==
    /\ \A i \in 1..Len(tried) :
          (i < Len(tried) \/ ~ApiReturned) =>
              \/ tried[i].kind = "Http"
              \/ /\ tried[i].kind = "Api"
                 /\ tried[i].status \in {429, 500, 502, 503, 529}
    /\ \A i \in 1..Len(tried) :
          (tried[i].kind = "Api"
             /\ tried[i].status \in {400, 401, 403, 404, 504})
          => /\ i = Len(tried)
             /\ ApiReturnedWith(tried[i])
    /\ ApiReturnedWith(JsonError) => tried = <<>>

\* C5 witness: a 429 was retried and the retry ended on a 404.
C5_Witness ==
    /\ ApiReturned
    /\ Len(tried) = 2
    /\ tried[1].kind = "Api" /\ tried[1].status = 429
    /\ tried[2].kind = "Api" /\ tried[2].status = 404

\* C6: the delay slept after failed attempt k is the retry-after value the
\* failure carried, and 2^(k-1) seconds otherwise; retry_delay gives 1, 2, 4
\* for attempts 1, 2, 3 on a failure that carries none.
C6_RetryDelay ==
    /\ \A k \in 1..Len(slept) :
          slept[k] = IF tried[k].retry_after # {}
                     THEN CHOOSE s \in tried[k].retry_after : TRUE
                     ELSE CASE k = 1 -> 1 [] k = 2 -> 2 [] OTHER -> 4
    /\ retry_delay(HttpError, 1) = 1
    /\ retry_delay(HttpError, 2) = 2
    /\ retry_delay(HttpError, 3) = 4
    /\ \A st \in Statuses \ {200} : \A ra \in {0, 30} : \A k \in 1..3 :
          retry_delay(ApiError(st, {ra}), k) = ra

\* C6 witness: a 30 s retry-after was slept first, then the 2 s backoff.
C6_Witness ==
    /\ Len(slept) = 2
    /\ tried[1].retry_after = {30} /\ slept[1] = 30
    /\ tried[2].retry_after = {} /\ slept[2] = 2

(***************************************************************************)
(* Claims about the stream reducer (SpecStream, SpecWf).                   *)
(***************************************************************************)
\* The step receives an event of the given type.
Receives(type) ==
    /\ Len(events') = Len(events) + 1
    /\ events'[Len(events')].type = type

ContentEventSeen ==
    \E i \in 1..Len(events) :
        events[i].type \in {"content_block_start", "content_block_delta"}

\* C7: an open block is never discarded: when a content-block-start arrives
\* while a block is open, and when the stream ends (message-stop or end of
\* stream) with a block open, the open block is finalized and appended to
\* the content.
C7_OpenBlockNeverDiscarded ==
    [][ (/\ st_pc = "loop"
         /\ block.state # "Idle"
         /\ Receives("content_block_start") \/ st_pc' = "returned")
        => content' = content \o finalize(block) ]_vars

C9_TimerJoinedOnReturn ==
    st_pc \in {"returned", "failed"} => timer_thread = "joined"

\* The blocks of a received event sequence, read off the sequence itself.
StartsOf(evs) ==
    { i \in 1..Len(evs) : evs[i].type = "content_block_start" }

StopOf(evs, i) ==
    CHOOSE j \in (i + 1)..Len(evs) :
        /\ evs[j].type = "content_block_stop"
        /\ \A k \in (i + 1)..(j - 1) : evs[k].type # "content_block_stop"

RECURSIVE ConcatFrags(_, _)
ConcatFrags(evs, kind) ==
    IF evs = <<>> THEN <<>>
    ELSE (IF evs[1].type = "content_block_delta" /\ evs[1].kind = kind
          THEN evs[1].frag ELSE <<>>)
         \o ConcatFrags(Tail(evs), kind)

DeltasOf(evs, i) == SubSeq(evs, i + 1, StopOf(evs, i) - 1)

NthStart(evs, n) ==
    CHOOSE i \in StartsOf(evs) :
        Cardinality({ j \in StartsOf(evs) : j <= i }) = n

\* The block the claim expects for the block started at index i; a tool-use
\* block holds `input(text)` of the concatenated input-json text.
ExpectedBlock(evs, i, input(_)) ==
    CASE evs[i].kind = "thinking" ->
            ThinkingBlock(ConcatFrags(DeltasOf(evs, i), "thinking"),
                          ConcatFrags(DeltasOf(evs, i), "signature"))
      [] evs[i].kind = "text" ->
            TextBlock(ConcatFrags(DeltasOf(evs, i), "text"))
      [] evs[i].kind = "tool_use" ->
            ToolUseBlock(evs[i].id, evs[i].name,
                         input(ConcatFrags(DeltasOf(evs, i), "input_json")))

ExpectedContent(evs, input(_)) ==
    [ n \in 1..Cardinality(StartsOf(evs)) |->
        ExpectedBlock(evs, NthStart(evs, n), input) ]

\* The whole protocol sequence was received: the last event is message-stop.
WfComplete ==
    /\ st_pc = "returned"
    /\ events # <<>>
    /\ events[Len(events)].type = "message_stop"

ExpectedResult(input(_)) ==
    [kind |-> "Ok",
     content |-> ExpectedContent(events, input),
     stop_reason |-> events[Len(events) - 1].reason,
     usage |-> [input_tokens |-> events[1].n,
                output_tokens |-> events[Len(events) - 1].n],
     interrupted |-> FALSE]

AsText(text) == text

ParsedOrEmpty(text) == IF IsJson(text) THEN text ELSE EmptyObject

\* C10 as stated: for a well-formed event sequence the result holds the
\* finished blocks in stream order, each holding the concatenation of the
\* deltas of its own kind, with the stop reason and output tokens of
\* message-delta, the input tokens of message-start and interrupted = false.
C10_BlocksHoldConcatenation ==
    WfComplete => st_result = {ExpectedResult(AsText)}

\* C10 as amended: as stated, except that a tool-use block holds the JSON
\* value parsed from the concatenation of its input-json deltas, and the
\* empty object when that text is not a JSON document.
C10_BlocksHoldParsedConcatenation ==
    WfComplete => st_result = {ExpectedResult(ParsedOrEmpty)}

\* C10 witness: message-start(100), start(text), delta("hi"), stop,
\* message-delta(end_turn, 1), message-stop yields [Text "hi"], end_turn,
\* input 100 and output 1.
C10_Witness ==
    /\ WfComplete
    /\ events = << MessageStart(100), ContentBlockStart("text", "", ""),
                   ContentBlockDelta("text", <<"h", "i">>), ContentBlockStop,
                   MessageDelta("end_turn", 1), MessageStop >>
    /\ st_result = { [kind |-> "Ok",
                      content |-> <<TextBlock(<<"h", "i">>)>>,
                      stop_reason |-> "end_turn",
                      usage |-> [input_tokens |-> 100, output_tokens |-> 1],
                      interrupted |-> FALSE] }

(***************************************************************************)
(* Claims about the session engine (SpecSession, SpecDispatch).            *)
(***************************************************************************)
\* The number of tool_result blocks of message m that carry call id `id`.
AnswersTo(m, id) ==
    Cardinality({ j \in 1..Len(m.blocks) :
                    m.blocks[j].type = "tool_result" /\ m.blocks[j].id = id })

\* Every tool_use of message i is answered exactly once in message i + 1.
Answered(msgs, i) ==
    \A k \in 1..Len(msgs[i].blocks) :
        msgs[i].blocks[k].type = "tool_use" =>
            /\ msgs[i + 1].role = "User"
            /\ msgs[i + 1].kind = "Blocks"
            /\ AnswersTo(msgs[i + 1], msgs[i].blocks[k].id) = 1

\* C1: in the history, every ToolUse block of an Assistant message is
\* answered in the immediately following User message by exactly one
\* ToolResult block with the same call id.
C1_ToolUseAnswered ==
    \A i \in 1..(Len(messages) - 1) :
        messages[i].role = "Assistant" => Answered(messages, i)

\* C2: when the transport or the decoder fails during a turn, the error is
\* reported and the turn loop returns to awaiting input; the process does
\* not terminate.
C2_TurnErrorReturnsToInput ==
    [][ (s_pc = "top" /\ "error" \in stderr') => s_pc' = "input" ]_vars

\* The dispatch has just returned: its results message is the last message.
JustJoined ==
    /\ s_pc = "top"
    /\ Len(messages) >= 2
    /\ messages[Len(messages)].role = "User"
    /\ messages[Len(messages)].kind = "Blocks"

\* C3: for N tool calls and any completion order of the workers, the
\* dispatcher returns N results and the i-th result carries the i-th call's
\* id.
C3_ResultsInCallOrder ==
    JustJoined =>
        LET calls == ToolCallsOf(messages[Len(messages) - 1].blocks)
            results == messages[Len(messages)].blocks
        IN  /\ Len(results) = Len(calls)
            /\ Len(finished) = Len(calls)
            /\ \A i \in 1..Len(calls) :
                  /\ results[i].type = "tool_result"
                  /\ results[i].id = calls[i].id

\* C3 witness: three calls, the workers finished in the order 3, 2, 1 and
\* the results came back in the order of the calls.
C3_Witness ==
    /\ JustJoined
    /\ finished = <<3, 2, 1>>
    /\ Len(messages[Len(messages)].blocks) = 3
    /\ messages[Len(messages)].blocks[1].id = "t1"
    /\ messages[Len(messages)].blocks[3].id = "t3"

(***************************************************************************)
(* Claims about interruption of the stream (SpecStream).                   *)
(***************************************************************************)
\* The step is the None arm of stream_response: the function returns Ok
\* without having received a further event.
ReturnsOnNone ==
    /\ st_pc = "loop"
    /\ st_pc' = "returned"
    /\ events' = events

\* C11: when the stream ends because of an interruption, the interrupted
\* flag of the result is set, and if a text block with accumulated text is
\* open, that text is emitted as a Text block at the end of the returned
\* content; otherwise the content is returned as it is.
C11_PartialTextEmitted ==
    [][ ReturnsOnNone /\ INTERRUPTED =>
          /\ st_result' =
                { [kind |-> "Ok", content |-> content',
                   stop_reason |-> stop_reason, usage |-> usage,
                   interrupted |-> TRUE] }
          /\ content' =
                IF block.state = "Text" /\ block.buf # <<>>
                THEN Append(content, TextBlock(block.buf))
                ELSE content ]_vars

\* C11 witness: the stream was interrupted after a text delta "a" and the
\* result ends with the Text block "a".
C11_Witness ==
    /\ st_pc = "returned"
    /\ INTERRUPTED
    /\ events # <<>>
    /\ events[Len(events)] = ContentBlockDelta("text", <<"a">>)
    /\ block.state = "Text" /\ block.buf = <<"a">>
    /\ \E res \in st_result :
          /\ res.interrupted
          /\ res.content # <<>>
          /\ res.content[Len(res.content)] = TextBlock(<<"a">>)

(***************************************************************************)
(* Claims about cancellation of the tool dispatch (SpecDispatch).          *)
(***************************************************************************)
\* The result block of a cancelled call.
CancelledResult(call) == ToolResultBlock(call.id, CancelledText, {TRUE})

\* Worker i leaves its entry in this step.
Starts(i) ==
    /\ Len(workers') = Len(workers)
    /\ workers[i].state = "spawned"
    /\ workers'[i].state # "spawned"

\* C12: a worker that finds the cancellation flag set when it starts
\* returns the error-flagged "(cancelled)" result with its call id, and
\* tool::execute is never invoked for it.
C12_CancelledAtStart ==
    /\ [][ \A i \in 1..Len(workers) :
             Starts(i) /\ INTERRUPTED =>
                /\ workers'[i].state = "done"
                /\ workers'[i].result = CancelledResult(tool_calls[i])
                /\ i \notin executed' ]_vars
    /\ [](\A i \in 1..Len(workers) :
             workers[i].state = "done" /\ workers[i].ret = "none" =>
                /\ workers[i].result = CancelledResult(tool_calls[i])
                /\ i \notin executed)

\* C12 witness: the first worker ran its tool, then SIGINT arrived and the
\* second worker was cancelled at its start.
C12_Witness ==
    /\ s_pc = "dispatch"
    /\ INTERRUPTED
    /\ Len(workers) = 2
    /\ 1 \in executed
    /\ workers[2].state = "done"
    /\ workers[2].result = CancelledResult(tool_calls[2])
    /\ 2 \notin executed

\* C13: when the cancellation flag is set before the dispatch of N tool
\* calls starts, the dispatch starts N workers each of which, at its start,
\* yields the cancelled error result and does not invoke tool::execute.
C13_CancelledBeforeDispatch ==
    [][ s_pc = "spawn" /\ INTERRUPTED /\ s_pc' = "dispatch" =>
          /\ Len(workers') = Len(tool_calls)
          /\ \A i \in 1..Len(workers') :
                LET w == worker_start(tool_calls'[i], INTERRUPTED') IN
                /\ w.state = "done"
                /\ w.result = CancelledResult(tool_calls[i]) ]_vars

(***************************************************************************)
(* Claims about failing tool calls (SpecDispatch).                         *)
(***************************************************************************)
\* The dispatch returns in this step.
Joins == s_pc = "dispatch" /\ s_pc' # "dispatch"

\* C14: a tool call that fails yields an error-flagged ToolResult carrying
\* the failure message and changes no sibling; a sibling that starts with
\* the flag clear still runs its tool; and the dispatch ends with all N
\* results pushed as one User message and the loop back at its top, where
\* the next request is built without reading input.
C14_FailureIsolated ==
    /\ [](\A i \in 1..Len(workers) :
             workers[i].ret = "error" =>
                workers[i].result =
                    ToolResultBlock(tool_calls[i].id, <<"tool error">>, {TRUE}))
    /\ [][ \A i \in 1..Len(workers) :
             /\ Len(workers') = Len(workers) /\ workers'[i].ret = "error"
                   /\ workers[i].ret = "none" =>
                   /\ s_pc' = "dispatch"
                   /\ \A j \in 1..Len(workers) :
                         j # i => workers'[j] = workers[j]
             /\ Starts(i) /\ ~INTERRUPTED =>
                   workers'[i].state = "executing" /\ i \in executed' ]_vars
    /\ [][ Joins =>
             /\ s_pc' = "top"
             /\ Len(workers) = Len(tool_calls)
             /\ \A i \in 1..Len(workers) :
                   workers[i].result.id = tool_calls[i].id
             /\ messages' =
                   Append(messages,
                          BlocksMsg("User",
                                    [i \in 1..Len(workers) |->
                                        workers[i].result])) ]_vars

\* C14 witness: of two calls the first failed and the second succeeded, and
\* both results are in the User message the dispatch pushed.
C14_Witness ==
    /\ JustJoined
    /\ messages[Len(messages)].blocks =
          << ToolResultBlock("t1", <<"tool error">>, {TRUE}),
             ToolResultBlock("t2", <<"out">>, {}) >>

(***************************************************************************)
(* Claims about the branches of the turn loop (SpecSession).               *)
(***************************************************************************)
\* stream_response returned Ok(res) to the turn loop in this step.
TurnReturned(res) ==
    /\ s_pc = "top"
    /\ turns' = turns + 1
    /\ st_result' = {res}
    /\ res.kind = "Ok"

\* The results stream_response can return Ok.
OkOutcomes == { o.result : o \in { t \in TurnOutcomes : t.result.kind = "Ok" } }

\* C15: the loop goes from the request to the tool dispatch exactly when the
\* stop reason is tool-use and the turn was not interrupted with empty
\* content.
C15_DispatchCondition ==
    [][ \A res \in OkOutcomes :
          TurnReturned(res) =>
             (s_pc' = "spawn" <=>
                 /\ res.stop_reason = "tool_use"
                 /\ ~(res.interrupted /\ res.content = <<>>)) ]_vars

\* C16 as stated: a turn whose stop reason is max-tokens ends the session
\* loop with the truncation warning.
C16_MaxTokensEndsLoop ==
    [][ \A res \in OkOutcomes :
          TurnReturned(res) /\ res.stop_reason = "max_tokens" =>
             s_pc' = "exit_ok" /\ "truncated" \in stderr' ]_vars

\* C16 as amended: a turn whose stop reason is max-tokens ends the session
\* loop with the truncation warning, and nothing follows in that loop: no
\* dispatch, no request, no prompt; unless the turn was interrupted with
\* empty content, when the loop goes to the prompt without a warning.
C16_MaxTokensEndsLoopUnlessEmpty ==
    /\ [][ \A res \in OkOutcomes :
             TurnReturned(res) /\ res.stop_reason = "max_tokens" =>
                IF res.interrupted /\ res.content = <<>>
                THEN s_pc' = "input" /\ "truncated" \notin stderr'
                ELSE s_pc' = "exit_ok" /\ "truncated" \in stderr' ]_vars
    /\ [][ s_pc = "exit_ok" => UNCHANGED sessVars ]_vars

\* C16 witness: the response was cut at the output limit after a text block
\* and the loop has ended with the warning.
C16_Witness ==
    /\ s_pc = "exit_ok"
    /\ "truncated" \in stderr
    /\ \E res \in st_result :
          /\ res.kind = "Ok"
          /\ res.stop_reason = "max_tokens"
          /\ res.content = <<TextBlock(<<"a">>)>>
    /\ messages[Len(messages)] = BlocksMsg("Assistant", <<TextBlock(<<"a">>)>>)

(***************************************************************************)
(* Claims about persistence (SpecPush, SpecPersist).                       *)
(***************************************************************************)
\* Sequence s is an initial part of sequence t.
IsPrefix(s, t) == Len(s) <= Len(t) /\ SubSeq(t, 1, Len(s)) = s

\* C17: push_message writes the transcript record before it pushes the
\* message: as long as no write has failed, at every moment the in-memory
\* history is an initial part of the transcript, record for record, and
\* between two calls of push_message the two are equal.
C17_SavedBeforePushed ==
    "warning" \notin stderr =>
        /\ IsPrefix(messages, transcript)
        /\ p_pc = 0 => messages = transcript

\* C17 witness: a message has been written to the transcript and is not yet
\* in the history, and an earlier message is in both.
C17_Witness ==
    /\ "warning" \notin stderr
    /\ p_pc = 2
    /\ Len(messages) = 1
    /\ Len(transcript) = 2
    /\ transcript[1] = messages[1]
    /\ pending = {transcript[2]}

\* The last message of the history after the step.
LastPushed == messages'[Len(messages')]

\* A step of the loop that pushes a message and whose write of the
\* transcript fails: the warning is printed, the transcript is as it was,
\* and control goes on from a place where push_message is called.
FailedWrite ==
    /\ "warning" \in stderr'
    /\ transcript' = transcript
    /\ \/ s_pc \in {"startup", "input", "dispatch"} /\ s_pc' = "top"
       \/ s_pc = "top" /\ s_pc' # "top"

\* C18: a step of the loop in which the write of the transcript fails is
\* not the end of the turn: the message of the step is at the end of the
\* in-memory history all the same, and the loop goes where it goes when the
\* write succeeds (to the next request, the dispatch, the prompt, or out of
\* the loop after a truncated response), never to the error exit.
C18_WriteFailureSwallowed ==
    [][ FailedWrite =>
          /\ messages' # <<>>
          /\ CASE s_pc = "top" ->
                    /\ \E res \in st_result' :
                          LastPushed = BlocksMsg("Assistant", res.content)
                    /\ s_pc' \in {"spawn", "input", "exit_ok"}
                    /\ s_pc' = "exit_ok" <=> "truncated" \in stderr'
               [] s_pc = "dispatch" ->
                    LastPushed =
                        BlocksMsg("User", [i \in 1..Len(workers) |->
                                              workers[i].result])
               [] OTHER ->
                    /\ LastPushed = UserText("text")
                    /\ Len(messages') = Len(messages) + 1 ]_vars

\* C18 witness: the writes of the user line, of the assistant message and of
\* the tool results all failed; the three messages are in the history and
\* the loop is at the top for the next request.
C18_Witness ==
    /\ storage = "faulty"
    /\ s_pc = "top"
    /\ "warning" \in stderr
    /\ transcript = <<>>
    /\ Len(messages) = 3
    /\ messages[3].role = "User" /\ messages[3].kind = "Blocks"

(***************************************************************************)
(* agent.rs: find_cut_point on its own, over histories and token counts.   *)
(***************************************************************************)
MaxHistory == 7

\* The kinds of message a history holds: a user line, an assistant message,
\* a user message of tool results.
CutMessages ==
    { UserText("text"),
      BlocksMsg("Assistant", <<TextBlock(<<"a">>)>>),
      BlocksMsg("User", <<ToolResultBlock("t1", <<"out">>, {})>>) }

Histories == UNION { [1..n -> CutMessages] : n \in 0..MaxHistory }

\* input_tokens: u32.  Counts above KEEP_RECENT_TOKENS by different factors,
\* with and without an exact ratio, and the extremes.
CutTokenCounts ==
    {0, 1, 40000, 50000, 56000, 70000, 160001, 200000, 2000000000}

\* find_cut_point(messages, input_tokens) is called and returns.
FindCutPoint ==
    /\ cut_point = {}
    /\ \E r \in find_cut_point_runs(messages, last_input_tokens) :
          cut_point' = {r}
    /\ UNCHANGED <<p_pc, pending, rdVars, bashVars, rtVars>>

\* The arguments of the call: a history and the input tokens of the last
\* response.
CutStart(h, n) ==
    /\ s_pc = "off"
    /\ messages = h
    /\ transcript = <<>>
    /\ disk = <<>>
    /\ indexed = {}
    /\ last_input_tokens = n
    /\ tool_calls = <<>>
    /\ workers = <<>>
    /\ finished = <<>>
    /\ executed = {}
    /\ turns = 0
    /\ stderr = {}

CutInit ==
    /\ ApiIdle /\ INTERRUPTED = FALSE /\ StreamIdle /\ Sound
    /\ FnIdle
    /\ \E h \in Histories, n \in CutTokenCounts : CutStart(h, n)

CutNext ==
    /\ FindCutPoint
    /\ UNCHANGED <<apiVars, INTERRUPTED, streamVars, sessVars, storage>>

SpecCut == CutInit /\ [][CutNext]_vars

\* The call has returned r.
Returned(r) == cut_point = {r}

\* The history has a user text message at the 0-based index i.
UserTextAt(i) ==
    /\ i + 1 \in 1..Len(messages)
    /\ messages[i + 1].role = "User"
    /\ messages[i + 1].kind = "Text"

\* C19: find_cut_point returns 0 for a history of fewer than six messages;
\* the keep_count it computes is at least 4; it returns 0 when keep_count
\* is the length of the history or more; and an index it returns other
\* than 0 is less than the length.
C19_CutPointBounds ==
    \A r \in cut_point :
        /\ Len(messages) < 6 => r.cut = 0
        /\ \A kc \in r.keep_count :
              /\ kc >= 4
              /\ kc >= Len(messages) => r.cut = 0
        /\ r.cut # 0 => r.cut \in 1..(Len(messages) - 1)

\* C19 witness: a history of seven messages and a keep_count of 5, above
\* the floor and below the length; the index returned is 2.
C19_Witness ==
    /\ Len(messages) = 7
    /\ \E r \in cut_point : r.keep_count = {5} /\ r.cut = 2

\* C20: an index other than 0 that find_cut_point returns is the index of
\* the first user text message at or after length - keep_count; when there
\* is no user text message from there on, it returns 0.
C20_FirstUserTextFromTarget ==
    \A r \in cut_point : \A kc \in r.keep_count :
        LET target == Len(messages) - kc IN
        /\ r.cut # 0 =>
              /\ r.cut >= target
              /\ UserTextAt(r.cut)
              /\ \A i \in target..(r.cut - 1) : ~UserTextAt(i)
        /\ (kc < Len(messages)
              /\ \A i \in target..(Len(messages) - 1) : ~UserTextAt(i))
             => r.cut = 0

\* C20 witness: the message at the target is an assistant message, the
\* next is a user message of tool results, and the index returned is that
\* of the user text message after them, which is not the last one.
C20_Witness ==
    /\ Len(messages) = 7
    /\ \E r \in cut_point :
          /\ r.keep_count = {4}
          /\ r.cut = 5
    /\ messages[4].role = "Assistant"
    /\ messages[5].role = "User" /\ messages[5].kind = "Blocks"
    /\ UserTextAt(5) /\ UserTextAt(6)

(***************************************************************************)
(* agent.rs: compact on its own, over histories with tool calls, token     *)
(* counts, the cancellation flag and what the summarization request does.  *)
(***************************************************************************)
MaxCompactHistory == 6

\* The kinds of message a history holds: a user line, an assistant answer,
\* an assistant tool call and a user message with its result.
CompactHistories ==
    UNION { [1..n -> PushedMessages] : n \in 0..MaxCompactHistory }

\* compact(config, &mut messages, input_tokens) is called and returns: Ok
\* with the history as it leaves it, or the error of generate_summary.
Compact ==
    /\ s_pc = "off"
    /\ \E r \in find_cut_point_runs(messages, last_input_tokens),
          gs \in SummaryScripts :
        LET c == compact(messages, r.cut, INTERRUPTED, gs) IN
        /\ cut_point' = {r}
        /\ messages' = c.messages
        /\ s_pc' = IF c.kind = "Ok" THEN "compacted" ELSE "failed"
        /\ stderr' = IF c.kind = "Ok" THEN {} ELSE {"error"}
    /\ UNCHANGED <<transcript, disk, indexed, last_input_tokens, tool_calls,
                   workers,
                   finished, executed, turns, p_pc, pending, rdVars,
                   bashVars, rtVars>>

CompactInit ==
    /\ ApiIdle /\ INTERRUPTED \in BOOLEAN /\ StreamIdle /\ Sound
    /\ FnIdle
    /\ \E h \in CompactHistories, n \in {50000, 200000} : CutStart(h, n)

CompactNext ==
    /\ Compact
    /\ UNCHANGED <<apiVars, INTERRUPTED, streamVars, storage>>

SpecCompact == CompactInit /\ [][CompactNext]_vars

\* The two messages compact puts in the place of the cut prefix.
ContextMessage(summary) == UserText("<context>" \o summary)

Acknowledgement == AssistantText("Understood")

\* The step is a call of compact that cut at c and whose summarization
\* returned Ok.
CutAt(c) ==
    /\ s_pc = "off" /\ s_pc' = "compacted"
    /\ \E r \in cut_point' : r.cut = c

\* C21: when compaction cuts at an index c > 0 and the summarization
\* succeeds, the new history is the context message with the summary, the
\* acknowledgement, and then the messages of the old history from c to the
\* end, unchanged and in order.
C21_CompactedHistory ==
    [][ \A c \in 1..Len(messages) :
          CutAt(c) =>
            /\ Len(messages') = 2 + Len(messages) - c
            /\ \E s \in {"complete", "partial", "empty"} :
                  messages'[1] = ContextMessage(s)
            /\ messages'[2] = Acknowledgement
            /\ \A i \in (c + 1)..Len(messages) :
                  messages'[2 + i - c] = messages[i] ]_vars

\* C21 witness: a history of six messages was cut at index 3; the new
\* history is the two synthetic messages and the last three of the old ones,
\* a tool call and its result among them.
C21_Witness ==
    /\ s_pc = "compacted"
    /\ cut_point = {[keep_count |-> {4}, cut |-> 3]}
    /\ Len(messages) = 5
    /\ messages[1] = ContextMessage("complete")
    /\ messages[4].role = "Assistant" /\ messages[5].role = "User"
    /\ messages[5].kind = "Blocks"

\* The tool_use blocks of message i of msgs are each answered once in the
\* next message, and the tool_result blocks of message i each answer a
\* tool_use of the message before.
PairedAt(msgs, i) ==
    /\ \A k \in 1..Len(msgs[i].blocks) :
          msgs[i].blocks[k].type = "tool_use" =>
              /\ msgs[i].role = "Assistant"
              /\ i < Len(msgs)
              /\ Answered(msgs, i)
    /\ \A k \in 1..Len(msgs[i].blocks) :
          msgs[i].blocks[k].type = "tool_result" =>
              /\ msgs[i].role = "User"
              /\ i > 1
              /\ msgs[i - 1].role = "Assistant"
              /\ \E j \in 1..Len(msgs[i - 1].blocks) :
                    /\ msgs[i - 1].blocks[j].type = "tool_use"
                    /\ msgs[i - 1].blocks[j].id = msgs[i].blocks[k].id

Paired(msgs) == \A i \in 1..Len(msgs) : PairedAt(msgs, i)

\* C22: a call of compact that returns Ok keeps the pairing of tool calls
\* and tool results if the history had it, and when it cuts, the message
\* after the two synthetic ones is a user text message.
C22_CompactionKeepsPairs ==
    [][ (s_pc = "off" /\ s_pc' = "compacted") =>
          /\ Paired(messages) => Paired(messages')
          /\ messages' # messages =>
                /\ Len(messages') >= 3
                /\ messages'[3].role = "User"
                /\ messages'[3].kind = "Text" ]_vars

\* C22 witness: a paired history of six messages whose call and result are
\* the fourth and the fifth was cut at index 2, between the first answer
\* and the second user line; the pair is in the new history.
C22_Witness ==
    /\ s_pc = "compacted"
    /\ cut_point = {[keep_count |-> {4}, cut |-> 2]}
    /\ Len(messages) = 6
    /\ Paired(messages)
    /\ messages[4].role = "Assistant" /\ messages[4].blocks # <<>>
    /\ messages[4].blocks[1].type = "tool_use"
    /\ messages[5].kind = "Blocks" /\ messages[5].blocks[1].type = "tool_result"

\* C23: a call of compact whose summarization fails returns the error and
\* leaves the history as it was, and a call that replaces the cut prefix
\* does so with the summary of a summarization stream that ran to its
\* message-stop.
C23_SummaryCompleteOrError ==
    [][ s_pc = "off" =>
          /\ s_pc' = "failed" =>
                messages' = messages /\ "error" \in stderr'
          /\ messages' # messages =>
                messages'[1] = ContextMessage("complete") ]_vars

(***************************************************************************)
(* stream.rs and sse.rs: stream_response over the events as the service    *)
(* writes them, each passed through parse_event.                           *)
(***************************************************************************)
MaxRaws == 4

\* Valid JSON that has none of the fields the Raw types require.
ObjectPayload == Event("object", "", "", "", <<>>, "", 0)

\* Text that is not JSON.
MalformedPayload == Event("malformed", "", "", "", <<>>, "", 0)

\* What the service may write: well-formed events, events of a known type
\* whose payload does not parse (no JSON, JSON of another shape, two
\* values), and events of types parse_event does not know, with payloads of
\* every sort.
RawOffers ==
    { Encode(ev) : ev \in { MessageStart(100),
                            ContentBlockStart("text", "", ""),
                            ContentBlockDelta("text", <<"a">>),
                            ContentBlockStop,
                            MessageDelta("end_turn", 1),
                            MessageStop } }
    \cup { RawEvent("content_block_delta", d) :
              d \in { <<MalformedPayload>>, <<ObjectPayload>>,
                      <<ContentBlockDelta("text", <<"a">>),
                        ContentBlockDelta("text", <<"a">>)>> } }
    \cup { RawEvent("error", <<p>>) :
              p \in { MalformedPayload, ObjectPayload,
                      ContentBlockDelta("text", <<"a">>) } }
    \cup { RawEvent("message_stop", <<MalformedPayload>>),
           RawEvent("", <<MessageStop>>) }

\* reader.next_event()? with the event the service wrote: next_event passes
\* its type and data to parse_event and returns what it returns.
StreamRaw ==
    /\ st_pc = "loop"
    /\ ~INTERRUPTED
    /\ Len(raws) < MaxRaws
    /\ \E raw \in RawOffers :
        LET pe == parse_event(raw.event_type, raw.data) IN
        /\ raws' = Append(raws, raw)
        /\ IF pe.kind # "Ok"
           THEN /\ Leave(Cur, "failed", StreamError(pe.kind))
                /\ UNCHANGED events
           ELSE /\ events' = Append(events, pe.event)
                /\ IF pe.event.type = "message_stop"
                   THEN Leave(Cur, "returned", StreamResult(Cur))
                   ELSE /\ Install(on_event(Cur, pe.event))
                        /\ UNCHANGED <<st_pc, st_result>>
    /\ UNCHANGED <<INTERRUPTED, server>>

DecodeNext ==
    \/ (StreamCall \/ StreamRaw \/ StreamNone)
         /\ UNCHANGED <<apiVars, sessVars, fnVars, storage>>
    \/ SigInt /\ UNCHANGED <<apiVars, streamVars, sessVars, fnVars, storage>>

SpecDecode == StreamInit /\ [][DecodeNext]_vars

\* The reducer of stream_response: everything it accumulates.
reducerVars ==
    <<content, usage, stop_reason, interrupted, block, timer, timer_thread>>

\* The step passes an event of the given type and payloads to parse_event.
Decodes(type, payloads) == raws' = Append(raws, RawEvent(type, payloads))

\* C24: an event whose type name parse_event does not know is decoded as
\* Ping whatever its payload: next_event returns Ok, the reducer and the
\* content it has accumulated are as they were, and stream_response stays
\* in its loop for the events that follow.
C24_UnknownTypeIsPing ==
    [][ \A p \in {MalformedPayload, ObjectPayload,
                  ContentBlockDelta("text", <<"a">>)} :
          Decodes("error", <<p>>) =>
            /\ events' = Append(events, Ping)
            /\ UNCHANGED reducerVars
            /\ st_pc' = "loop"
            /\ st_result' = {} ]_vars

\* C24 witness: a text block received a delta, then an event of an unknown
\* type with a payload that is not JSON, then another delta; the block
\* holds both deltas.
C24_Witness ==
    /\ Len(raws) = 4
    /\ raws[3] = RawEvent("error", <<MalformedPayload>>)
    /\ events[3] = Ping
    /\ block.state = "Text"
    /\ block.buf = <<"a", "a">>
    /\ st_pc = "loop"

\* The data of a content_block_delta event that does not parse.
BadDeltas ==
    { <<MalformedPayload>>, <<ObjectPayload>>,
      <<ContentBlockDelta("text", <<"a">>),
        ContentBlockDelta("text", <<"a">>)>> }

\* C26: an event of a known type whose payload does not parse makes
\* next_event return the error, and stream_response returns that error and
\* nothing of what it had accumulated; once it has failed it takes no
\* further step, so the request is not sent again.
C26_BadPayloadIsError ==
    [][ /\ \A d \in BadDeltas :
              Decodes("content_block_delta", d) =>
                /\ events' = events
                /\ st_pc' = "failed"
                /\ st_result' = {StreamError("Json")}
        /\ st_pc = "failed" => UNCHANGED streamVars ]_vars

\* C26 witness: a text block was finished, then a content_block_delta whose
\* payload has none of the fields arrived; stream_response has returned the
\* error, without the block.
C26_Witness ==
    /\ st_pc = "failed"
    /\ Len(raws) = 4
    /\ raws[3] = Encode(ContentBlockStop)
    /\ raws[4] = RawEvent("content_block_delta", <<ObjectPayload>>)
    /\ content # <<>>
    /\ st_result = {StreamError("Json")}

(***************************************************************************)
(* sse.rs: SseReader::next_event, one action per read of a line.  A line   *)
(* is shown after the trimming of its end: an "event: " line with the type *)
(* name, a "data: " line with its payload, a blank line, or another line   *)
(* (a comment, an id: or retry: field).                                    *)
(***************************************************************************)
MaxLines == 3

MaxEintr == 2

Line(field, name, payload) ==
    [field |-> field, name |-> name, payload |-> payload]

LineKinds ==
    { Line("event", "content_block_delta", Ping),
      Line("event", "error", Ping),
      Line("data", "", ContentBlockDelta("text", <<"a">>)),
      Line("data", "", MalformedPayload),
      Line("blank", "", Ping),
      Line("other", "", Ping) }

Wires == UNION { [1..n -> LineKinds] : n \in 0..MaxLines }

\* The value of a `data: ` line with nothing after the prefix.
EmptyPayload == Event("empty", "", "", "", <<>>, "", 0)

\* if !data.is_empty() { data.push('\n'); } data.push_str(val): data is
\* held as the values that a newline separates, so the empty string is <<>>
\* and an empty value pushed onto the empty string leaves it empty.
push_data(buf, val) ==
    IF buf = <<>> /\ val = EmptyPayload THEN buf ELSE Append(buf, val)

\* return from next_event
ReaderReturn(r) ==
    /\ rd_pc' = "returned"
    /\ rd_result' = {r}

OkNone == [kind |-> "Ok", event |-> {}]

\* if signal::is_interrupted() { return Ok(None); } at the top of the loop
ReaderCheck ==
    /\ rd_pc = "check"
    /\ IF INTERRUPTED
       THEN ReaderReturn(OkNone)
       ELSE rd_pc' = "read" /\ UNCHANGED rd_result
    /\ UNCHANGED <<event_type, data, lines, eintr, frame>>

\* self.reader.read_line(&mut line) returns Ok(n) with n > 0, and the line
\* is processed.
ReadLine ==
    /\ rd_pc = "read"
    /\ lines # <<>>
    /\ lines' = Tail(lines)
    /\ LET line == Head(lines) IN
       CASE line.field = "blank" /\ data = <<>> ->
                /\ rd_pc' = "check"
                /\ UNCHANGED <<event_type, data, rd_result>>
         [] line.field = "blank" /\ data # <<>> ->
                LET pe == parse_event(event_type, data) IN
                /\ ReaderReturn(IF pe.kind = "Ok"
                                THEN [kind |-> "Ok", event |-> {pe.event}]
                                ELSE [kind |-> pe.kind, event |-> {}])
                /\ UNCHANGED <<event_type, data>>
         [] line.field = "event" ->
                /\ event_type' = line.name
                /\ rd_pc' = "check"
                /\ UNCHANGED <<data, rd_result>>
         [] line.field = "data" ->
                /\ data' = push_data(data, line.payload)
                /\ rd_pc' = "check"
                /\ UNCHANGED <<event_type, rd_result>>
         [] OTHER ->
                /\ rd_pc' = "check"
                /\ UNCHANGED <<event_type, data, rd_result>>
    /\ frame' = IF Head(lines).field = "blank"
                THEN IF data = <<>> THEN <<>> ELSE frame
                ELSE Append(frame, Head(lines))
    /\ UNCHANGED eintr

\* read_line returns Ok(0): the end of the stream.
ReadEof ==
    /\ rd_pc = "read"
    /\ lines = <<>>
    /\ ReaderReturn(OkNone)
    /\ UNCHANGED <<event_type, data, lines, eintr, frame>>

\* A variant of ReadInterrupted without the arm for Interrupted: the error
\* is returned like any other.
ReadInterruptedFails ==
    /\ rd_pc = "read"
    /\ eintr < MaxEintr
    /\ eintr' = eintr + 1
    /\ ReaderReturn([kind |-> "Io", event |-> {}])
    /\ UNCHANGED <<event_type, data, lines, frame>>

\* read_line returns Err(e) with e.kind() == ErrorKind::Interrupted: a
\* signal handler ran during the read, for SIGINT or for another signal.
ReadInterrupted ==
    /\ rd_pc = "read"
    /\ eintr < MaxEintr
    /\ eintr' = eintr + 1
    /\ IF INTERRUPTED
       THEN ReaderReturn(OkNone)
       ELSE rd_pc' = "check" /\ UNCHANGED rd_result
    /\ UNCHANGED <<event_type, data, lines, frame>>

\* read_line returns another error.
ReadError ==
    /\ rd_pc = "read"
    /\ ReaderReturn([kind |-> "Io", event |-> {}])
    /\ UNCHANGED <<event_type, data, lines, eintr, frame>>

ReaderInit ==
    /\ ApiIdle /\ INTERRUPTED \in BOOLEAN /\ StreamIdle /\ SessionOff /\ Sound
    /\ p_pc = 0 /\ pending = {} /\ cut_point = {} /\ BashIdle
    /\ RoundTripIdle
    /\ rd_pc = "check"
    /\ event_type = ""
    /\ data = <<>>
    /\ lines \in Wires
    /\ eintr = 0
    /\ rd_result = {}
    /\ frame = <<>>

ReaderNext ==
    \/ (ReaderCheck \/ ReadLine \/ ReadEof \/ ReadInterrupted \/ ReadError)
         /\ UNCHANGED <<apiVars, INTERRUPTED, streamVars, sessVars, p_pc,
                        pending, cut_point, bashVars, rtVars, storage>>
    \/ (SigInt /\ rd_pc \in {"check", "read"})
         /\ UNCHANGED <<apiVars, streamVars, sessVars, fnVars, storage>>

SpecReader == ReaderInit /\ [][ReaderNext]_vars

\* C25: when the flag is set at the check before a read, and when a read
\* returns Interrupted with the flag set, next_event returns Ok(None), not
\* an error, and reads nothing more; when a read returns Interrupted with
\* the flag clear, next_event goes round its loop with what it had gathered
\* and the input where it was.
C25_InterruptIsCleanEnd ==
    [][ /\ (rd_pc = "check" /\ INTERRUPTED /\ rd_pc' # "check") =>
              rd_result' = {OkNone} /\ lines' = lines
        /\ (eintr' # eintr /\ INTERRUPTED) =>
              rd_result' = {OkNone} /\ lines' = lines
        /\ (eintr' # eintr /\ ~INTERRUPTED) =>
              /\ rd_pc' = "check"
              /\ rd_result' = {}
              /\ UNCHANGED <<event_type, data, lines>> ]_vars

\* C25 witness: with the data of an event gathered and lines yet to come,
\* two reads were interrupted, SIGINT was delivered, and next_event has
\* returned Ok(None).
C25_Witness ==
    /\ rd_pc = "returned"
    /\ rd_result = {OkNone}
    /\ eintr = 2
    /\ INTERRUPTED
    /\ data # <<>>
    /\ lines # <<>>

(***************************************************************************)
(* tool.rs: run_bash.  Time is counted in units of 200 ms, the timeout of  *)
(* one recv_timeout of the loop; it passes whatever the threads do.  The   *)
(* shell process ends of its own accord or by SIGKILL; the thread that     *)
(* waits for it sends what wait_with_output returns, which is when the     *)
(* process has ended and no process holds its pipes.                       *)
(***************************************************************************)
MaxClock == 38

MaxLate == 2

\* Duration::from_secs(timeout_secs) and Duration::from_secs(5), in units of
\* 200 ms.
Units(secs) == 5 * secs

OutLine(s) == [text |-> s, secs |-> 0]

\* format!("(timed out after {timeout_secs}s)")
Marker(secs) == [text |-> "(timed out after Ns)", secs |-> secs]

\* format_output(&output): stdout, the exit code unless the status is
\* success, and a fixed line when there is neither.
format_output(out) ==
    LET lns == (IF out.stdout THEN <<OutLine("out")>> ELSE <<>>)
               \o (IF out.success THEN <<>> ELSE <<OutLine("exit code")>>)
    IN  IF lns = <<>> THEN <<OutLine("(no output, exit code 0)")>> ELSE lns

BashReturn(r) ==
    /\ b_pc' = "returned"
    /\ b_result' = {r}

\* A variant of Kill that sends no signal.
KillNothing == child' = child

\* libc::kill(pid as i32, libc::SIGKILL)
Kill ==
    child' = IF child.state = "running"
             THEN [state |-> "killed", ended |-> now]
             ELSE child

\* Time passes.  A recv_timeout that times out returns at most MaxLate
\* units after it began; time is not counted once nothing depends on it.
Tick ==
    /\ \/ b_pc = "loop" /\ now < polled + MaxLate
       \/ b_pc = "kill_wait" /\ now < polled + Units(5)
    /\ now < MaxClock
    /\ now' = now + 1
    /\ UNCHANGED <<b_pc, timeout_secs, polled, child, orphans, rx, b_result>>

\* The command ends.
ChildExit ==
    /\ child.state = "running"
    /\ child' = [state |-> "exited", ended |-> now]
    /\ UNCHANGED <<b_pc, timeout_secs, now, polled, orphans, rx, b_result>>

\* The processes the shell left behind end.
OrphansExit ==
    /\ orphans
    /\ orphans' = FALSE
    /\ UNCHANGED <<b_pc, timeout_secs, now, polled, child, rx, b_result>>

\* The spawned thread: tx.send(child.wait_with_output())
WaiterSend ==
    /\ rx = {}
    /\ child.state \in {"exited", "killed"}
    /\ ~orphans
    /\ \E so \in BOOLEAN, io \in {"Ok", "Io"} :
          rx' = {[kind |-> io, stdout |-> so,
                  success |-> child.state = "exited"]}
    /\ UNCHANGED <<b_pc, timeout_secs, now, polled, child, orphans, b_result>>

\* One rx.recv_timeout(Duration::from_millis(200)) of the loop and the arm
\* taken for its result.
BashRecv ==
    /\ b_pc = "loop"
    /\ IF rx # {}
       THEN /\ \E result \in rx :
                  BashReturn(IF result.kind = "Ok"
                             THEN [kind |-> "Ok", text |-> format_output(result)]
                             ELSE [kind |-> "Io", text |-> <<>>])
            /\ UNCHANGED <<polled, child>>
       ELSE /\ now >= polled + 1
            /\ IF INTERRUPTED
               THEN /\ Kill
                    /\ b_pc' = "cancel_wait"
                    /\ UNCHANGED <<polled, b_result>>
               ELSE IF now >= Units(timeout_secs)
               THEN /\ Kill
                    /\ b_pc' = "kill_wait"
                    /\ polled' = now
                    /\ UNCHANGED b_result
               ELSE /\ polled' = now
                    /\ UNCHANGED <<b_pc, child, b_result>>
    /\ UNCHANGED <<timeout_secs, now, orphans, rx>>

\* rx.recv_timeout(Duration::from_secs(5)) after the kill for the timeout.
BashKillWait ==
    /\ b_pc = "kill_wait"
    /\ IF rx # {}
       THEN \E result \in rx :
               BashReturn([kind |-> "Ok",
                           text |-> IF result.kind = "Ok"
                                    THEN Append(format_output(result),
                                                Marker(timeout_secs))
                                    ELSE <<Marker(timeout_secs)>>])
       ELSE /\ now >= polled + Units(5)
            /\ BashReturn([kind |-> "Ok", text |-> <<Marker(timeout_secs)>>])
    /\ UNCHANGED <<timeout_secs, now, polled, child, orphans, rx>>

\* let _ = rx.recv(); return Err(..."(cancelled)") after the kill for the
\* cancellation.
BashCancelWait ==
    /\ b_pc = "cancel_wait"
    /\ rx # {}
    /\ BashReturn([kind |-> "Tool", text |-> <<OutLine("(cancelled)")>>])
    /\ UNCHANGED <<timeout_secs, now, polled, child, orphans, rx>>

\* run_bash has spawned the shell and the thread and taken `start`.
BashInit ==
    /\ ApiIdle /\ INTERRUPTED = FALSE /\ StreamIdle /\ SessionOff /\ Sound
    /\ p_pc = 0 /\ pending = {} /\ cut_point = {} /\ ReaderIdle
    /\ RoundTripIdle
    /\ b_pc = "loop"
    /\ timeout_secs \in {1, 2}
    /\ now = 0
    /\ polled = 0
    /\ child = [state |-> "running", ended |-> 0]
    /\ orphans \in BOOLEAN
    /\ rx = {}
    /\ b_result = {}

BashNext ==
    \/ (Tick \/ ChildExit \/ OrphansExit \/ WaiterSend \/ BashRecv
          \/ BashKillWait \/ BashCancelWait)
         /\ UNCHANGED <<apiVars, INTERRUPTED, streamVars, sessVars, p_pc,
                        pending, cut_point, rdVars, rtVars, storage>>
    \/ (SigInt /\ b_pc = "loop")
         /\ UNCHANGED <<apiVars, streamVars, sessVars, fnVars, storage>>

SpecBash == BashInit /\ [][BashNext]_vars

\* The command was running when the timeout elapsed.
RanPastTimeout ==
    \/ child.state = "running" /\ now >= Units(timeout_secs)
    \/ child.state \in {"exited", "killed"}
         /\ child.ended >= Units(timeout_secs)

\* run_bash has returned Ok with the marker as the last line.
ReturnedMarker ==
    \E r \in b_result :
        /\ r.kind = "Ok"
        /\ r.text # <<>>
        /\ r.text[Len(r.text)] = Marker(timeout_secs)

\* C27: when run_bash has returned for a command that was running when its
\* timeout elapsed, the shell was killed, the result is Ok with the marker
\* as its last line, and the shell is not running.
C27_TimeoutKills ==
    (b_pc = "returned" /\ RanPastTimeout) =>
        /\ child.state = "killed"
        /\ ReturnedMarker

\* C27 as amended: when a recv_timeout of the loop times out at or after the
\* timeout with the cancellation flag clear, the shell is sent SIGKILL and
\* is not running from then on, and run_bash returns from there Ok with the
\* marker as its last line; a command that ends after the timeout and
\* before that recv_timeout returns is not killed, and with the flag set
\* the result is the error "(cancelled)".
C27_TimeoutKillsAtPoll ==
    [][ /\ (b_pc = "loop" /\ rx = {} /\ ~INTERRUPTED
              /\ now >= Units(timeout_secs) /\ <<b_pc, polled>>' # <<b_pc, polled>>)
            => b_pc' = "kill_wait" /\ child'.state \in {"exited", "killed"}
        /\ b_pc = "kill_wait" =>
              /\ child'.state \in {"exited", "killed"}
              /\ b_pc' \in {"kill_wait", "returned"}
              /\ b_pc' = "returned" => ReturnedMarker' ]_vars

\* C27 witness: the command ran for its whole timeout of one second and was
\* killed; run_bash has returned its output, the exit code and the marker.
C27_Witness ==
    /\ b_pc = "returned"
    /\ timeout_secs = 1
    /\ child = [state |-> "killed", ended |-> 5]
    /\ b_result = {[kind |-> "Ok",
                    text |-> <<OutLine("out"), OutLine("exit code"),
                               Marker(1)>>]}

\* C28: when a turn has ended, by a return to the prompt or by the end of
\* its tool dispatch, the record of the session in the index holds the
\* number of messages of the history.
C28_IndexAfterEveryTurn ==
    [][ (\/ s_pc = "top" /\ s_pc' = "input"
         \/ s_pc = "dispatch" /\ s_pc' = "top")
        => indexed' = {Len(messages')} ]_vars

\* C29: once the cancellation flag is set, send_stream makes no further
\* delivery attempt.
C29_NoAttemptOnceInterrupted ==
    [][ INTERRUPTED => tried' = tried ]_vars

(***************************************************************************)
(* types.rs and agent.rs: the transcript record of a Message.  A line of   *)
(* the transcript is kept as the JSON value that serde_json writes and     *)
(* reads: a string, a boolean, null, an array, an object whose members are *)
(* in the order they were written, or the text of a serde_json::Value.  A  *)
(* string is held whole in `s` (a key, a role, an id, a name) or as its    *)
(* characters in `items`, as the field it comes from is.                   *)
(***************************************************************************)
Json(j, s, items) == [j |-> j, s |-> s, items |-> items]

JString(s) == Json("string", s, <<>>)

JChars(chars) == Json("string", "", chars)

JValue(text) == Json("value", "", text)

JBool(b) == Json(IF b THEN "true" ELSE "false", "", <<>>)

JNull == Json("null", "", <<>>)

JArray(items) == Json("array", "", items)

Member(key, value) == Json("member", key, <<value>>)

JObject(members) == Json("object", "", members)

Has(v, key) == \E i \in DOMAIN v.items : v.items[i].s = key

Get(v, key) ==
    v.items[CHOOSE i \in DOMAIN v.items : v.items[i].s = key].items[1]

IsString(v, key) == Has(v, key) /\ Get(v, key).j = "string"

\* #[serde(rename = "user")] User, #[serde(rename = "assistant")] Assistant
role_to_json(role) == JString(IF role = "User" THEN "user" ELSE "assistant")

Tag(type) == Member("type", JString(type))

\* A variant of block_to_json that writes is_error only when it is
\* Some(true).
block_to_json_skip_false(b) ==
    CASE b.type = "thinking" ->
            JObject(<<Tag("thinking"), Member("thinking", JChars(b.text))>>
                    \o IF b.signature = <<>> THEN <<>>
                       ELSE <<Member("signature", JChars(b.signature))>>)
      [] b.type = "text" ->
            JObject(<<Tag("text"), Member("text", JChars(b.text))>>)
      [] b.type = "tool_use" ->
            JObject(<<Tag("tool_use"), Member("id", JString(b.id)),
                      Member("name", JString(b.name)),
                      Member("input", JValue(b.input))>>)
      [] b.type = "tool_result" ->
            JObject(<<Tag("tool_result"),
                      Member("tool_use_id", JString(b.id)),
                      Member("content", JChars(b.text))>>
                    \o IF b.is_error = {TRUE}
                       THEN <<Member("is_error", JBool(TRUE))>>
                       ELSE <<>>)

\* Serialize for ContentBlock: #[serde(tag = "type")] with the renamed
\* variants; signature is skipped when it is empty and is_error when it is
\* None.
block_to_json(b) ==
    CASE b.type = "thinking" ->
            JObject(<<Tag("thinking"), Member("thinking", JChars(b.text))>>
                    \o IF b.signature = <<>> THEN <<>>
                       ELSE <<Member("signature", JChars(b.signature))>>)
      [] b.type = "text" ->
            JObject(<<Tag("text"), Member("text", JChars(b.text))>>)
      [] b.type = "tool_use" ->
            JObject(<<Tag("tool_use"), Member("id", JString(b.id)),
                      Member("name", JString(b.name)),
                      Member("input", JValue(b.input))>>)
      [] b.type = "tool_result" ->
            JObject(<<Tag("tool_result"),
                      Member("tool_use_id", JString(b.id)),
                      Member("content", JChars(b.text))>>
                    \o IF b.is_error = {} THEN <<>>
                       ELSE <<Member("is_error",
                                     JBool(TRUE \in b.is_error))>>)

\* Serialize for Content: #[serde(untagged)], a string or an array.
content_to_json(m) ==
    IF m.kind = "Text" THEN JChars(m.text)
    ELSE JArray([i \in DOMAIN m.blocks |-> block_to_json(m.blocks[i])])

\* serde_json::to_string(msg)
message_to_string(m) ==
    JObject(<<Member("role", role_to_json(m.role)),
              Member("content", content_to_json(m))>>)

Parsed(value) == [kind |-> "Ok", value |-> value]

\* Deserialize for ContentBlock: the variant is chosen by "type"; every
\* field is required but signature, which defaults to the empty string, and
\* is_error, which is None when absent or null.
block_from_json(v) ==
    IF v.j # "object" \/ ~IsString(v, "type") THEN JsonError
    ELSE LET type == Get(v, "type").s IN
         CASE type = "thinking" ->
                IF /\ IsString(v, "thinking")
                   /\ (Has(v, "signature") => IsString(v, "signature"))
                THEN Parsed(ThinkingBlock(
                        Get(v, "thinking").items,
                        IF Has(v, "signature")
                        THEN Get(v, "signature").items
                        ELSE <<>>))
                ELSE JsonError
           [] type = "text" ->
                IF IsString(v, "text")
                THEN Parsed(TextBlock(Get(v, "text").items))
                ELSE JsonError
           [] type = "tool_use" ->
                IF /\ IsString(v, "id") /\ IsString(v, "name")
                   /\ Has(v, "input") /\ Get(v, "input").j = "value"
                THEN Parsed(ToolUseBlock(Get(v, "id").s, Get(v, "name").s,
                                         Get(v, "input").items))
                ELSE JsonError
           [] type = "tool_result" ->
                IF /\ IsString(v, "tool_use_id")
                   /\ IsString(v, "content")
                   /\ (Has(v, "is_error") =>
                        Get(v, "is_error").j \in {"true", "false", "null"})
                THEN Parsed(ToolResultBlock(
                        Get(v, "tool_use_id").s, Get(v, "content").items,
                        IF ~Has(v, "is_error") \/ Get(v, "is_error").j = "null"
                        THEN {}
                        ELSE {Get(v, "is_error").j = "true"}))
                ELSE JsonError
           [] OTHER -> JsonError

\* Deserialize for Content: the variants are tried in the order they are
\* declared, Text and then Blocks.
content_from_json(v) ==
    IF v.j = "string"
    THEN Parsed([kind |-> "Text", text |-> v.items, blocks |-> <<>>])
    ELSE IF /\ v.j = "array"
            /\ \A i \in DOMAIN v.items : block_from_json(v.items[i]).kind = "Ok"
    THEN Parsed([kind |-> "Blocks", text |-> <<>>,
                 blocks |-> [i \in DOMAIN v.items |->
                                block_from_json(v.items[i]).value]])
    ELSE JsonError

\* serde_json::from_str::<Message>(line)
message_from_str(v) ==
    IF /\ v.j = "object"
       /\ IsString(v, "role") /\ Get(v, "role").s \in {"user", "assistant"}
       /\ Has(v, "content") /\ content_from_json(Get(v, "content")).kind = "Ok"
    THEN LET c == content_from_json(Get(v, "content")).value IN
         Parsed(Msg(IF Get(v, "role").s = "user" THEN "User" ELSE "Assistant",
                    c.kind, c.text, c.blocks))
    ELSE JsonError

\* load_session: every line is parsed; the first line that fails ends the
\* call with its error.
load_session(file) ==
    IF \A i \in DOMAIN file : message_from_str(file[i]).kind = "Ok"
    THEN Parsed([i \in DOMAIN file |-> message_from_str(file[i]).value])
    ELSE JsonError

MaxBlocks == 2

Texts == {<<>>, <<"h", "i">>}

Blocks ==
    {ThinkingBlock(<<"h", "m">>, sig) : sig \in {<<>>, <<"s">>}}
        \cup {TextBlock(text) : text \in Texts}
        \cup {ToolUseBlock("t1", "bash", input) :
                input \in {EmptyObject, <<"1">>}}
        \cup {ToolResultBlock("t1", <<"o", "k">>, is_error) :
                is_error \in {{}, {TRUE}, {FALSE}}}

BlockLists == UNION {[1..n -> Blocks] : n \in 0..MaxBlocks}

Messages ==
    {Msg(role, "Text", text, <<>>) :
        role \in {"User", "Assistant"}, text \in Texts}
        \cup {Msg(role, "Blocks", <<>>, blocks) :
                role \in {"User", "Assistant"}, blocks \in BlockLists}

\* save_message(path, msg) on a new transcript: the record of msg is
\* appended as one line.
SaveMessage ==
    /\ rt_pc = "start"
    /\ \E m \in saved : record' = Append(record, message_to_string(m))
    /\ rt_pc' = "saved"
    /\ UNCHANGED <<saved, loaded>>

\* load_session(path) on the transcript that was written.
LoadSession ==
    /\ rt_pc = "saved"
    /\ loaded' = {load_session(record)}
    /\ rt_pc' = "loaded"
    /\ UNCHANGED <<saved, record>>

RoundTripInit ==
    /\ ApiIdle /\ INTERRUPTED = FALSE /\ StreamIdle /\ SessionOff /\ Sound
    /\ p_pc = 0 /\ pending = {} /\ cut_point = {} /\ ReaderIdle /\ BashIdle
    /\ rt_pc = "start"
    /\ saved \in {{m} : m \in Messages}
    /\ record = <<>>
    /\ loaded = {}

RoundTripNext ==
    (SaveMessage \/ LoadSession)
        /\ UNCHANGED <<apiVars, INTERRUPTED, streamVars, sessVars, p_pc,
                       pending, cut_point, rdVars, bashVars, storage>>

SpecRoundTrip == RoundTripInit /\ [][RoundTripNext]_vars

\* C30: a Message that save_message wrote is read back by load_session as
\* an equal Message, whether its content is plain text or blocks of any
\* variant: Thinking with or without a signature, Text, ToolUse, ToolResult
\* with is_error absent, true or false.
C30_RoundTrip ==
    rt_pc = "loaded" =>
        \A r \in loaded, m \in saved : r.kind = "Ok" /\ r.value = <<m>>

C30_Witness ==
    /\ rt_pc = "loaded"
    /\ \E m \in saved :
        /\ m.kind = "Blocks"
        /\ \E i \in DOMAIN m.blocks :
            m.blocks[i].type = "tool_result" /\ m.blocks[i].is_error = {FALSE}
        /\ \E i \in DOMAIN m.blocks :
            m.blocks[i].type = "thinking" /\ m.blocks[i].signature = <<>>
    /\ \A r \in loaded : r.kind = "Ok"

(***************************************************************************)
(* sse.rs: the framing of next_event, one call from the start of a stream  *)
(* with no signal and no read error.                                       *)
(***************************************************************************)
MaxFrameLines == 4

FrameLineKinds ==
    { Line("event", "message_stop", Ping),
      Line("event", "content_block_delta", Ping),
      Line("data", "", ContentBlockDelta("text", <<"a">>)),
      Line("data", "", EmptyPayload),
      Line("blank", "", Ping),
      Line("other", "", Ping) }

FrameWires == UNION { [1..n -> FrameLineKinds] : n \in 0..MaxFrameLines }

FrameInit ==
    /\ ApiIdle /\ INTERRUPTED = FALSE /\ StreamIdle /\ SessionOff /\ Sound
    /\ p_pc = 0 /\ pending = {} /\ cut_point = {} /\ BashIdle
    /\ RoundTripIdle
    /\ rd_pc = "check"
    /\ event_type = ""
    /\ data = <<>>
    /\ lines \in FrameWires
    /\ eintr = 0
    /\ rd_result = {}
    /\ frame = <<>>

FrameNext ==
    (ReaderCheck \/ ReadLine \/ ReadEof)
        /\ UNCHANGED <<apiVars, INTERRUPTED, streamVars, sessVars, p_pc,
                       pending, cut_point, bashVars, rtVars, storage>>

SpecFrame == FrameInit /\ [][FrameNext]_vars

IsEventLine(l) == l.field = "event"

IsDataLine(l) == l.field = "data"

\* The value of the last `event: ` line among ls, the empty string when
\* there is none.
TypeOf(ls) ==
    LET evs == SelectSeq(ls, IsEventLine) IN
    IF evs = <<>> THEN "" ELSE evs[Len(evs)].name

\* The values of the `data: ` lines among ls joined with a newline; one
\* empty value is the empty string.
JoinedData(ls) ==
    LET ds == SelectSeq(ls, IsDataLine)
        vals == [i \in DOMAIN ds |-> ds[i].payload]
    IN  IF vals = <<EmptyPayload>> THEN <<>> ELSE vals

\* next_event returned at a blank line, with an event or with the error of
\* parse_event.
Dispatched == rd_pc = "returned" /\ rd_result # {OkNone}

\* C31: the type and the payload of the event that a blank line dispatches
\* are those of the lines of its own block, the lines between the blank
\* line before and this one: the type of its `event: ` line and the values
\* of its `data: ` lines joined with a newline.
C31_FramedByBlankLines ==
    Dispatched =>
        event_type = TypeOf(frame) /\ data = JoinedData(frame)

\* This step of stream_response takes content-block-stop with a tool-use
\* accumulator open.
StopsToolUse ==
    /\ st_pc = "loop"
    /\ block.state = "ToolUse"
    /\ Len(events') = Len(events) + 1
    /\ events'[Len(events')].type = "content_block_stop"

\* C32: at content-block-stop of a tool-use block the result gains one
\* ToolUse block with the id and name of the block; its input is the value
\* of the concatenated fragments when they are a JSON document and the
\* empty object when they are not (no fragment included), and
\* stream_response goes on with the next event.
C32_BadInputIsEmptyObject ==
    [][ StopsToolUse =>
            /\ st_pc' = "loop"
            /\ block' = Idle
            /\ content' =
                 Append(content,
                        ToolUseBlock(block.id, block.name,
                                     IF IsJson(block.json) THEN block.json
                                     ELSE EmptyObject)) ]_vars

\* C32 witness: a tool-use block whose only fragment is "{" was stopped;
\* the result holds the block with its id and name and the empty object,
\* and stream_response is still reading.
C32_Witness ==
    /\ st_pc = "loop"
    /\ Len(events) = 4
    /\ events[2] = ContentBlockStart("tool_use", "t1", "bash")
    /\ events[3] = ContentBlockDelta("input_json", <<"{">>)
    /\ events[4] = ContentBlockStop
    /\ content = <<ToolUseBlock("t1", "bash", EmptyObject)>>

\* This step is one iteration of the loop of run_session, from its top.
TurnStep == s_pc = "top" /\ turns' = turns + 1

\* The history after the step begins with the history before it.
HistoryKept ==
    /\ Len(messages') >= Len(messages)
    /\ SubSeq(messages', 1, Len(messages)) = messages

\* The history after the step begins with a context message, the
\* acknowledgement and the messages of the history before it from a cut
\* index of find_cut_point on.
HistoryCompacted ==
    \E c \in find_cut_point(messages, last_input_tokens) \ {0} :
        /\ Len(messages') >= 2 + Len(messages) - c
        /\ \E s \in {"complete", "partial", "empty"} :
              messages'[1] = ContextMessage(s)
        /\ messages'[2] = Acknowledgement
        /\ \A i \in (c + 1)..Len(messages) :
              messages'[2 + i - c] = messages[i]

\* C33: an iteration of the turn loop compacts the history before its
\* request exactly when the input-token count of the previous turn is above
\* 160000 (and find_cut_point gives a cut); the count is 0 when the loop of
\* a new or resumed session is entered, and every turn that returns
\* overwrites it with the usage it reported, an interrupted turn included.
C33_CompactionAboveThreshold ==
    [][ /\ TurnStep =>
            /\ last_input_tokens <= 160000 => HistoryKept
            /\ (last_input_tokens > 160000
                  /\ 0 \notin find_cut_point(messages, last_input_tokens))
                 => (HistoryCompacted \/ s_pc' = "exit_err")
            /\ s_pc' # "exit_err" =>
                 \E r \in st_result' :
                    last_input_tokens' = r.usage.input_tokens
        /\ (s_pc = "startup" /\ s_pc' = "top") => last_input_tokens' = 0
      ]_vars

\* C33 witness: the second turn of a resumed session began by compacting
\* the history, since the first had reported 200000 input tokens, and was
\* interrupted after message-start; the count is now the 100 it reported.
C33_Witness ==
    /\ s_pc = "input"
    /\ turns = 2
    /\ messages[1] = ContextMessage("complete")
    /\ last_input_tokens = 100
    /\ \E r \in st_result :
          r.kind = "Ok" /\ r.interrupted /\ r.usage.input_tokens = 100

\* A worker of ws has not returned yet.
Running(ws) == \E i \in DOMAIN ws : ws[i].state # "done"

\* C34: workers run only during the dispatch of a turn; a step that appends
\* to the history, writes the transcript or starts the next turn is taken
\* with no worker running, so the results message and the next request
\* come after every worker was joined, and no write of the transcript
\* overlaps a worker.
C34_WorkersJoinedBeforeWrite ==
    [][ /\ (messages' # messages \/ transcript' # transcript
              \/ turns' # turns) => ~Running(workers)
        /\ Running(workers') => s_pc' = "dispatch"
      ]_vars

\* C34 witness: two workers ran and returned, the scope ended, and the
\* results message is the last of the history and of the transcript.
C34_Witness ==
    /\ s_pc = "top"
    /\ workers = <<>>
    /\ Len(finished) = 2
    /\ messages # <<>>
    /\ messages[Len(messages)].role = "User"
    /\ messages[Len(messages)].kind = "Blocks"
    /\ Len(messages[Len(messages)].blocks) = 2
    /\ transcript = messages

\* The steps of run_bash and of its spawned thread, and the passing of
\* time, happen when they can; the command and the processes it left
\* behind may run for ever.
BashProgram(A) ==
    A /\ UNCHANGED <<apiVars, INTERRUPTED, streamVars, sessVars, p_pc,
                     pending, cut_point, rdVars, rtVars, storage>>

SpecBashFair ==
    /\ SpecBash
    /\ WF_vars(BashProgram(Tick))
    /\ WF_vars(BashProgram(WaiterSend))
    /\ WF_vars(BashProgram(BashRecv))
    /\ WF_vars(BashProgram(BashKillWait))
    /\ WF_vars(BashProgram(BashCancelWait))

\* C35: once the cancellation flag is set while run_bash is in its wait
\* loop, run_bash returns, whatever the command and the processes it
\* started do.
C35_CancelReturns ==
    (INTERRUPTED /\ b_pc = "loop") ~> (b_pc = "returned")

\* The last turn was interrupted: stream_response returned with
\* interrupted = true.
LastTurnInterrupted == \E r \in st_result : r.kind = "Ok" /\ r.interrupted

\* C36: the cancellation flag is clear when the turn loop comes to its top
\* after a turn that was interrupted and when a tool dispatch has completed,
\* so that nothing run before the next request (the compaction pass, a
\* shell escape at the prompt) sees the interrupt of the cycle before.
C36_FlagClearAtCycleStart ==
    [][ /\ (s_pc = "input" /\ s_pc' = "top" /\ LastTurnInterrupted)
              => ~INTERRUPTED'
        /\ (s_pc = "dispatch" /\ s_pc' = "top") => ~INTERRUPTED'
      ]_vars

\* The roles of msgs are User, Assistant, User, ... from the first on.
Alternates(msgs) ==
    \A i \in DOMAIN msgs :
        msgs[i].role = IF i % 2 = 1 THEN "User" ELSE "Assistant"

\* C37: the history alternates roles strictly from a User message on, and
\* at the top of the loop, where the request is built, its last message is
\* a User message.
C37_RolesAlternate ==
    /\ Alternates(messages)
    /\ s_pc = "top" =>
          (messages # <<>> /\ messages[Len(messages)].role = "User")

\* C38: a result of stream_response with stop reason end_turn and
\* interrupted = false is returned only for a stream in which a
\* message-delta with stop reason end_turn was received.
C38_EndTurnWasSent ==
    (st_pc = "returned"
       /\ \E r \in st_result :
             r.kind = "Ok" /\ r.stop_reason = "end_turn" /\ ~r.interrupted)
    => \E i \in 1..Len(events) :
          events[i].type = "message_delta" /\ events[i].reason = "end_turn"

\* C39: every message of the history that holds content blocks, an
\* Assistant message of a response or the User message of tool results,
\* holds at least one block.
C39_NoEmptyMessage ==
    \A i \in DOMAIN messages :
        messages[i].kind = "Blocks" => messages[i].blocks # <<>>

\* ---------------------------------------------------------------------
\* C40: a compaction pass run for a previous input-token count above
\* COMPACT_THRESHOLD that cuts does so at index 2 or later, and the history
\* it leaves is no longer than the history it was given.
CompactionPass == s_pc = "off" /\ s_pc' # "off"

C40_CutAtLeastTwo ==
    [][ (CompactionPass /\ over_threshold(last_input_tokens)) =>
            \A r \in cut_point' :
                r.cut # 0 =>
                    /\ r.cut >= 2
                    /\ Len(messages') <= Len(messages)
      ]_vars

\* A six-message history was cut at index 2 for a count of 200000: the
\* summary pair replaced two messages and the four kept ones follow it.
C40_Witness ==
    /\ s_pc = "compacted"
    /\ last_input_tokens = 200000
    /\ cut_point = {[keep_count |-> {4}, cut |-> 2]}
    /\ Len(messages) = 6
    /\ messages[1] = ContextMessage("complete")
    /\ messages[3] = UserText("text")

====
